---- MODULE Spec2Model ----
(***************************************************************************)
(* Model of the monitoring core of phantom: the generic-catalog (Shopify)  *)
(* store poller, the proprietary-retail-API (Footsites) poller, the fleet  *)
(* coordinator's detection hand-off and the Monitor Manager's event        *)
(* pipeline.                                                               *)
(*                                                                         *)
(* Conventions.  A Python str is a sequence of one-character strings, so   *)
(* that case folding, substring replacement and substring search are       *)
(* computed and not assumed.  None and the empty string are both <<>>      *)
(* where the code only tests truthiness.  Wall-clock time is an integer    *)
(* number of tenths of a second.  A float in [0,1] (a confidence) is an    *)
(* integer number of hundredths.                                           *)
(***************************************************************************)
EXTENDS Integers, Sequences, FiniteSets, TLC

VARIABLES
    \* ShopifyStoreMonitor (shopify_monitor.py:69-91)
    target_sizes, seen_products, seen_variants,
    last_request_time, consecutive_errors, backoff_until,
    store,
    \* the wall clock read by time.time()
    now,
    \* what the latest check() returned and did (observation of one call)
    result, log, fetched, net_calls,
    \* the answer that ended the latest check() ("none" when it sent no request),
    \* the checks since the latest answered one that sent a request and were
    \* not answered in full, and the page requests of the latest check()
    \* (observation)
    polled,
    \* FootsiteMonitor (footsites.py:87-115) and what its latest check() returned
    footsite, footsite_result, footsite_fetched,
    \* MonitorManager (manager.py:56-78) and every event handed to _process_event
    manager, arrived,
    \* what the latest get_recent_events / get_high_priority_events returned
    returned,
    \* the calls of matches_title and match_product_title made so far
    matched,
    \* the coordinators (MultiStoreMonitor, MultiFootsiteMonitor), their store
    \* loops (asyncio tasks), the stores' HTTP sessions, and the start() / stop()
    \* calls in progress
    coordinators, loops, sessions, calls,
    \* MultiStoreMonitor's proxy pool and store registry, and every add_store
    \* made so far (shopify_monitor.py:397-406)
    fleet,
    \* a ProductDatabase (products.py:114-118), the document export_to_json
    \* wrote and the database load_from_json filled from it
    exchange,
    \* the activations of _process_event suspended at a callback, one per
    \* store loop (manager.py:238-277)
    handlers

shopify_vars == <<target_sizes, seen_products, seen_variants, last_request_time,
                  consecutive_errors, backoff_until, store, now,
                  result, log, fetched, net_calls, polled>>

footsite_vars == <<footsite, footsite_result, footsite_fetched>>

manager_vars == <<manager, arrived>>

lookup_vars == <<returned, matched>>

lifecycle_vars == <<coordinators, loops, sessions, calls>>

fleet_vars == <<fleet, exchange>>

handler_vars == <<handlers>>

vars == <<shopify_vars, footsite_vars, manager_vars, lookup_vars, lifecycle_vars,
          fleet_vars, handler_vars>>

-----------------------------------------------------------------------------
(* Python str operations on character sequences *)

LowerLetters == <<"a","b","c","d","e","f","g","h","i","j","k","l","m",
                  "n","o","p","q","r","s","t","u","v","w","x","y","z">>

UpperLetters == <<"A","B","C","D","E","F","G","H","I","J","K","L","M",
                  "N","O","P","Q","R","S","T","U","V","W","X","Y","Z">>

DigitChars == <<"0","1","2","3","4","5","6","7","8","9">>

IndexOf(c, letters) ==
    IF \E i \in DOMAIN letters : letters[i] = c
    THEN CHOOSE i \in DOMAIN letters : letters[i] = c
    ELSE 0

upper(s) ==
    [i \in 1..Len(s) |->
        IF IndexOf(s[i], LowerLetters) > 0
        THEN UpperLetters[IndexOf(s[i], LowerLetters)] ELSE s[i]]

lower(s) ==
    [i \in 1..Len(s) |->
        IF IndexOf(s[i], UpperLetters) > 0
        THEN LowerLetters[IndexOf(s[i], UpperLetters)] ELSE s[i]]

RECURSIVE lstrip(_)
lstrip(s) == IF s # <<>> /\ s[1] = " " THEN lstrip(Tail(s)) ELSE s

RECURSIVE rstrip(_)
rstrip(s) ==
    IF s # <<>> /\ s[Len(s)] = " " THEN rstrip(SubSeq(s, 1, Len(s) - 1)) ELSE s

strip(s) == rstrip(lstrip(s))

StartsWith(s, p) == Len(p) <= Len(s) /\ SubSeq(s, 1, Len(p)) = p

Drop(s, n) == SubSeq(s, n + 1, Len(s))

\* s.replace(old, ""), old non-empty: leftmost non-overlapping occurrences
RECURSIVE replace_with_empty(_, _)
replace_with_empty(s, old) ==
    IF Len(s) < Len(old) THEN s
    ELSE IF StartsWith(s, old) THEN replace_with_empty(Drop(s, Len(old)), old)
    ELSE <<s[1]>> \o replace_with_empty(Tail(s), old)

\* needle in haystack
contains(haystack, needle) ==
    \E i \in 0..(Len(haystack) - Len(needle)) :
        SubSeq(haystack, i + 1, i + Len(needle)) = needle

InSeq(x, seq) == \E i \in DOMAIN seq : seq[i] = x

\* float(s) succeeds, for the strings the model holds: digits with at most one "."
float_ok(s) ==
    /\ \A i \in DOMAIN s : IndexOf(s[i], DigitChars) > 0 \/ s[i] = "."
    /\ Cardinality({i \in DOMAIN s : s[i] = "."}) <= 1
    /\ \E i \in DOMAIN s : IndexOf(s[i], DigitChars) > 0

RECURSIVE DigitsValue(_)
DigitsValue(ds) ==
    IF ds = <<>> THEN 0
    ELSE 10 * DigitsValue(SubSeq(ds, 1, Len(ds) - 1))
         + (IndexOf(ds[Len(ds)], DigitChars) - 1)

DotAt(s) == IF InSeq(".", s) THEN CHOOSE i \in DOMAIN s : s[i] = "." ELSE Len(s) + 1

IntegerPart(s) == DigitsValue(SubSeq(s, 1, DotAt(s) - 1))

FractionIsZero(s) == \A i \in DOMAIN s : i > DotAt(s) => s[i] = "0"

-----------------------------------------------------------------------------
(* ShopifyStoreMonitor: size recognition and normalisation *)

\* _normalize_sizes, one element of the list (shopify_monitor.py:97-98)
normalize_target_size(size) ==
    strip(replace_with_empty(replace_with_empty(replace_with_empty(
          replace_with_empty(upper(strip(size)), <<"U","S">>),
          <<"S","I","Z","E">>), <<"M">>), <<"W">>))

normalize_sizes(sizes) == [i \in 1..Len(sizes) |-> normalize_target_size(sizes[i])]

LetterSizes == { <<"X","S">>, <<"S">>, <<"M">>, <<"L">>, <<"X","L">>,
                 <<"X","X","L">>, <<"2","X","L">>, <<"3","X","L">>, <<"O","S">>,
                 <<"O","N","E"," ","S","I","Z","E">> }

MinShoeSize == 3

MaxShoeSize == 18

is_size(value) ==
    IF value = <<>> THEN FALSE
    ELSE LET v == upper(strip(value))
             digits == SelectSeq(v, LAMBDA c : IndexOf(c, DigitChars) > 0 \/ c = ".")
         IN  \/ /\ float_ok(digits)
                /\ MinShoeSize <= IntegerPart(digits)
                /\ \/ IntegerPart(digits) < MaxShoeSize
                   \/ IntegerPart(digits) = MaxShoeSize /\ FractionIsZero(digits)
             \/ v \in LetterSizes

\* length of the match of (US|SIZE|MENS?|WOMENS?)\s* at the start of s, 0 if none
TokenLen(s) ==
    IF StartsWith(s, <<"U","S">>) THEN 2
    ELSE IF StartsWith(s, <<"S","I","Z","E">>) THEN 4
    ELSE IF StartsWith(s, <<"M","E","N","S">>) THEN 4
    ELSE IF StartsWith(s, <<"M","E","N">>) THEN 3
    ELSE IF StartsWith(s, <<"W","O","M","E","N","S">>) THEN 6
    ELSE IF StartsWith(s, <<"W","O","M","E","N">>) THEN 5
    ELSE 0

RECURSIVE sub_size_tokens(_)
sub_size_tokens(s) ==
    IF s = <<>> THEN <<>>
    ELSE IF TokenLen(s) > 0 THEN sub_size_tokens(lstrip(Drop(s, TokenLen(s))))
    ELSE <<s[1]>> \o sub_size_tokens(Tail(s))

normalize_size(size) == strip(sub_size_tokens(upper(strip(size))))

-----------------------------------------------------------------------------
(* The storefronts and configurations the poller is checked against *)

\* the characters of every str the storefronts and configurations hold
Chars(str) ==
    CASE str = "" -> <<>>
      [] str = "Grail Tee" -> <<"G","r","a","i","l"," ","T","e","e">>
      [] str = "Tee Twin" -> <<"T","e","e"," ","T","w","i","n">>
      [] str = "Retired Tee" -> <<"R","e","t","i","r","e","d"," ","T","e","e">>
      [] str = "Jordan 4 Retro Black Cat" ->
             <<"J","o","r","d","a","n"," ","4"," ","R","e","t","r","o"," ",
               "B","l","a","c","k"," ","C","a","t">>
      [] str = "Tee-Twin" -> <<"T","e","e","-","T","w","i","n">>
      [] str = "Nike Dunk Low Panda" ->
           <<"N","i","k","e"," ","D","u","n","k"," ","L","o","w"," ","P","a","n","d","a">>
      [] str = "nike" -> <<"n","i","k","e">>
      [] str = "tee_twin" -> <<"t","e","e","_","t","w","i","n">>
      [] str = "tee_twin_1" -> <<"t","e","e","_","t","w","i","n","_","1">>
      [] str = "tee_twin_2" -> <<"t","e","e","_","t","w","i","n","_","2">>
      [] str = "Kith" -> <<"K","i","t","h">>
      [] str = "KITH" -> <<"K","I","T","H">>
      [] str = "Kith NYC" -> <<"K","i","t","h"," ","N","Y","C">>
      [] str = "Undefeated" -> <<"U","n","d","e","f","e","a","t","e","d">>
      [] str = "9" -> <<"9">>
      [] str = "10" -> <<"1","0">>
      [] str = "10.5" -> <<"1","0",".","5">>
      [] str = "11" -> <<"1","1">>
      [] str = "US 10" -> <<"U","S"," ","1","0">>
      [] str = "M" -> <<"M">>
      [] str = "m" -> <<"m">>
      [] str = "Black" -> <<"B","l","a","c","k">>
      [] str = "110.00" -> <<"1","1","0",".","0","0">>
      [] str = "N/A" -> <<"N","/","A">>
      [] str = "Panda Dunk" -> <<"P","a","n","d","a"," ","D","u","n","k">>
      [] str = "Tee" -> <<"T","e","e">>
      [] str = "Panda Dunk GS" -> <<"P","a","n","d","a"," ","D","u","n","k"," ","G","S">>
      [] str = "dunk low panda" ->
             <<"d","u","n","k"," ","l","o","w"," ","p","a","n","d","a">>
      [] str = "panda dunk" -> <<"p","a","n","d","a"," ","d","u","n","k">>
      [] str = "black white dunk" ->
             <<"b","l","a","c","k"," ","w","h","i","t","e"," ","d","u","n","k">>
      [] str = "dunk panda" -> <<"d","u","n","k"," ","p","a","n","d","a">>
      [] str = "tee" -> <<"t","e","e">>
      [] str = "-kids" -> <<"-","k","i","d","s">>
      [] str = "-gs" -> <<"-","g","s">>
      [] str = "Dunk Panda Dunk" -> <<"D","u","n","k"," ","P","a","n","d","a"," ","D","u","n","k">>
      [] str = "Socks" -> <<"S","o","c","k","s">>
      [] str = "AJ4" -> <<"A","J","4">>
      [] str = "AJ4 Retro" -> <<"A","J","4"," ","R","e","t","r","o">>
      [] str = "AJ4 Retro IV" -> <<"A","J","4"," ","R","e","t","r","o"," ","I","V">>
      [] str = "AJ4 CU1110" -> <<"A","J","4"," ","C","U","1","1","1","0">>
      [] str = "AJ4 CU1110 010" -> <<"A","J","4"," ","C","U","1","1","1","0"," ","0","1","0">>
      [] str = "AJ4 Retro CU1110" -> <<"A","J","4"," ","R","e","t","r","o"," ","C","U","1","1","1","0">>
      [] str = "AJ4 010" -> <<"A","J","4"," ","0","1","0">>
      [] str = "Panda Dunk AJ4 Retro" -> <<"P","a","n","d","a"," ","D","u","n","k"," ","A","J","4"," ","R","e","t","r","o">>
      [] str = "jordan 4" -> <<"j","o","r","d","a","n"," ","4">>
      [] str = "black cat" -> <<"b","l","a","c","k"," ","c","a","t">>
      [] str = "aj4" -> <<"a","j","4">>
      [] str = "retro" -> <<"r","e","t","r","o">>
      [] str = "iv" -> <<"i","v">>
      [] str = "CU1110" -> <<"C","U","1","1","1","0">>
      [] str = "010" -> <<"0","1","0">>

Variant(id, option1, available) ==
    [id |-> id, available |-> available, option1 |-> option1,
     option2 |-> "", option3 |-> "", title |-> option1, price |-> "110.00"]

\* product P: three shoe sizes, variants 1 (9), 2 (US 10), 3 (11)
ProductP(av) ==
    [id |-> "P", title |-> "Panda Dunk",
     variants |-> <<Variant(1, "9", 1 \in av), Variant(2, "US 10", 2 \in av),
                    Variant(3, "11", 3 \in av)>>]

\* product Q: a letter size, variant 4 (M), and a variant with no size, 5 (Black)
ProductQ(av) ==
    [id |-> "Q", title |-> "Tee",
     variants |-> <<Variant(4, "M", 4 \in av), Variant(5, "Black", 5 \in av)>>]

VariantsP == {1, 2, 3}

VariantsQ == {4, 5}

AvailP == SUBSET VariantsP

AvailQ == {{}, {4}, {5}}

UniqueCatalogs ==
    {<<>>} \cup {<<ProductP(a)>> : a \in AvailP}
           \cup {<<ProductQ(b)>> : b \in AvailQ}
           \cup {<<ProductP(a), ProductQ(b)>> : a \in AvailP, b \in AvailQ}

\* the same product id twice in one catalog
RepeatCatalogs ==
    {<<ProductP(a), ProductP(b)>> : a \in {{}, {1}}, b \in {{2}, {1, 2}}}

Page(products) == [kind |-> "http", status |-> 200, products |-> products]

Failure(kind, status) == [kind |-> kind, status |-> status, products |-> <<>>]

Failures == {Failure("http", 429), Failure("http", 401), Failure("http", 403),
             Failure("http", 500), Failure("timeout", 0), Failure("error", 0)}

Server(pages, cyclic) == [pages |-> pages, cyclic |-> cyclic]

\* a catalog served as one page, as one product per page, failing on the first
\* or on a later page, and a feed that never serves an empty page
Servers ==
    {Server(<<Page(c)>>, FALSE) : c \in UniqueCatalogs \cup RepeatCatalogs}
    \cup {Server(<<Page(<<ProductP(a)>>), Page(<<ProductQ({4})>>)>>, FALSE) :
             a \in {{1}, {1, 2, 3}}}
    \cup {Server(<<f>>, FALSE) : f \in Failures}
    \cup {Server(<<Page(<<ProductP({1, 2, 3})>>), f>>, FALSE) : f \in Failures}
    \cup {Server(<<Page(<<ProductP({1, 2})>>)>>, TRUE)}


\* every str a variant holds as option1, option2, option3, title or price
Labels == {"", "9", "10", "10.5", "11", "US 10", "M", "m", "Black", "110.00", "N/A"}

\* _is_size, _normalize_size and float() of every label, computed once
IsSize == [l \in Labels |-> is_size(Chars(l))]

NormalizedSize == [l \in Labels |-> normalize_size(Chars(l))]

FloatParses == [l \in Labels |-> float_ok(Chars(l))]

extract_size(variant) ==
    IF variant.option1 # "" /\ IsSize[variant.option1]
        THEN NormalizedSize[variant.option1]
    ELSE IF variant.option2 # "" /\ IsSize[variant.option2]
        THEN NormalizedSize[variant.option2]
    ELSE IF variant.option3 # "" /\ IsSize[variant.option3]
        THEN NormalizedSize[variant.option3]
    ELSE IF IsSize[variant.title] THEN NormalizedSize[variant.title]
    ELSE <<>>

-----------------------------------------------------------------------------
(* ShopifyStoreMonitor._process_products *)

Put(f, k, v) == [x \in (DOMAIN f) \cup {k} |-> IF x = k THEN v ELSE f[x]]

Available(product) == SelectSeq(product.variants, LAMBDA v : v.available)

RECURSIVE SizesOf(_)
SizesOf(variants) ==
    IF variants = <<>> THEN <<>>
    ELSE (IF extract_size(variants[1]) # <<>>
          THEN <<extract_size(variants[1])>> ELSE <<>>) \o SizesOf(Tail(variants))

RECURSIVE VariantMap(_)
VariantMap(variants) ==
    IF variants = <<>> THEN <<>>
    ELSE LET v == variants[Len(variants)]
             rest == VariantMap(SubSeq(variants, 1, Len(variants) - 1))
         IN  IF extract_size(v) = <<>> THEN rest
             ELSE Put(rest, extract_size(v), v.id)

\* float(...) raises on a price of a sized available variant (line 263) or of the
\* first available variant (line 280): the record is skipped (lines 328-330)
Raises(product) ==
    LET av == Available(product)
    IN  \/ \E i \in DOMAIN av : extract_size(av[i]) # <<>> /\ ~FloatParses[av[i].price]
        \/ av # <<>> /\ ~FloatParses[av[1].price]

\* a JSON null, which response.json() turns into Python's None
Null == "null"

\* title[:50] in the arguments of logger.info raises for a title that is not a
\* str (lines 308, 324); the statements before it have run, and the except
\* clause goes on with the next record (lines 328-330)
info_raises(title) == title = Null

\* faulty variant of matching_sizes: the filter keeps every size
unfiltered_sizes(sizes, targets) == sizes

\* sizes of the available variants that are in the target set (line 270)
matching_sizes(sizes, targets) == SelectSeq(sizes, LAMBDA s : InSeq(s, targets))

\* faulty variant of new_variants: the previous set is not subtracted
all_current_variants(current_variant_ids, old_variants) == current_variant_ids

\* faulty variant of new_variants: the subtraction is the wrong way round
lost_variants(current_variant_ids, old_variants) == old_variants \ current_variant_ids

\* the available variant ids not recorded at the previous poll (line 314)
new_variants(current_variant_ids, old_variants) == current_variant_ids \ old_variants

\* faulty variant of mark_unavailable: the entry is left as it was
leave_variants(variants_index, product_id) == variants_index

\* the index update for a seen product with no available variant (lines 245-248)
mark_unavailable(variants_index, product_id) == Put(variants_index, product_id, {})

\* faulty variant of record_variants: a new product gets no variant set
no_variants(variants_index, product_id, variant_ids) == variants_index

\* self._seen_variants[product_id] = current_variant_ids for a new product
\* (line 302)
record_variants(variants_index, product_id, variant_ids) ==
    Put(variants_index, product_id, variant_ids)

\* faulty variant of never_seen: every product goes to the restock branch
always_seen(product_id, products_index) == FALSE

\* the test for a product never reported before (line 299)
never_seen(product_id, products_index) == product_id \notin DOMAIN products_index

\* one iteration of the loop of _process_products over `product`;
\* st = [seen_products, seen_variants, detected, products_found, log], where log
\* records which of the two logger.info calls (lines 305, 321) ran, and on what
process_product(st, product, targets) ==
    LET product_id == product.id
        available_variants == Available(product)
        sizes == SizesOf(available_variants)
        matching == matching_sizes(sizes, targets)
        sizes_available == IF targets # <<>> THEN matching ELSE sizes
        product_info == [product_id |-> product_id,
                         title |-> product.title,
                         price |-> available_variants[1].price,
                         sizes_available |-> sizes_available,
                         variants |-> VariantMap(available_variants)]
        current_variant_ids == {available_variants[i].id : i \in DOMAIN available_variants}
        old_variants == IF product_id \in DOMAIN st.seen_variants
                        THEN st.seen_variants[product_id] ELSE {}
        gained == new_variants(current_variant_ids, old_variants)
    IN  IF available_variants = <<>> THEN
            IF product_id \in DOMAIN st.seen_products
            THEN [st EXCEPT !.seen_variants = mark_unavailable(@, product_id)]
            ELSE st
        ELSE IF targets # <<>> /\ matching = <<>> THEN st
        ELSE IF Raises(product) THEN st
        ELSE IF never_seen(product_id, st.seen_products) THEN
            [st EXCEPT !.seen_products = Put(@, product_id, product_info),
                       !.seen_variants = record_variants(@, product_id, current_variant_ids),
                       !.detected = Append(@, product_info),
                       !.products_found = @ + 1,
                       !.log = IF info_raises(product.title) THEN @
                               ELSE Append(@, [kind |-> "new_product",
                                               product_id |-> product_id,
                                               old_variants |-> {},
                                               new_variants |-> current_variant_ids])]
        ELSE IF gained # {} THEN
            [st EXCEPT !.seen_variants = Put(@, product_id, current_variant_ids),
                       !.seen_products = Put(@, product_id, product_info),
                       !.detected = Append(@, product_info),
                       !.log = IF info_raises(product.title) THEN @
                               ELSE Append(@, [kind |-> "restock",
                                               product_id |-> product_id,
                                               old_variants |-> old_variants,
                                               new_variants |-> gained])]
        ELSE st

RECURSIVE process_products(_, _, _)
process_products(st, products_data, targets) ==
    IF products_data = <<>> THEN st
    ELSE process_products(process_product(st, products_data[1], targets),
                          Tail(products_data), targets)

-----------------------------------------------------------------------------
(* ShopifyStoreMonitor.check and _handle_rate_limit *)

TicksPerSecond == 10

BackoffBase == 10

BackoffCap == 300

PageLimit == 10

\* asyncio.sleep(0.1) between pages, in ticks
PageDelay == TicksPerSecond \div 10

RECURSIVE Pow2(_)
Pow2(n) == IF n = 0 THEN 1 ELSE 2 * Pow2(n - 1)

Min(a, b) == IF a <= b THEN a ELSE b

\* faulty variant of backoff_time: the delay is not capped
uncapped_backoff_time(errors) == BackoffBase * Pow2(errors)

\* backoff_time of _handle_rate_limit, in seconds
backoff_time(errors) == Min(BackoffCap, BackoffBase * Pow2(errors))

\* faulty variant of count_error: the failure leaves the counter as it was
ignore_error(errors) == errors

\* self._consecutive_errors += 1 of a poll that ends in a failure other than
\* 429 (shopify_monitor.py:158, 166, 204, 211)
count_error(errors) == errors + 1

\* the storefront: page n of products.json is pages[n]; past the last page it
\* serves an empty page, or the last page again when cyclic; the only failing
\* status other than 429, 401 and 403 that a storefront answers is 500
Respond(srv, page) ==
    IF page <= Len(srv.pages) THEN srv.pages[page]
    ELSE IF srv.cyclic /\ srv.pages # <<>> THEN srv.pages[Len(srv.pages)]
    ELSE [kind |-> "http", status |-> 200, products |-> <<>>]

\* faulty variant of past_limit: the cut comes one page late
past_limit_late(page) == page > PageLimit + 1

\* if page > 10: break (shopify_monitor.py:183-184)
past_limit(page) == page > PageLimit

\* what a request for `page` was answered with: "failure", "empty" for a page
\* without products, "products" otherwise (observation)
PageRequest(page, response) ==
    [page |-> page,
     answer |-> IF response.kind # "http" \/ response.status # 200 THEN "failure"
                ELSE IF response.products = <<>> THEN "empty" ELSE "products"]

\* faulty variant of fail_page: the loop is left as at the end of the catalog
break_at_failure(outcome, all_products) == [outcome |-> "ok", products |-> all_products]

\* a page request that fails returns from check() inside the loop or raises
\* into its except clauses (shopify_monitor.py:148-170, 200-217): the poll has
\* this outcome and the products of the pages fetched before are dropped
fail_page(outcome, all_products) == [outcome |-> outcome, products |-> <<>>]

\* the while-loop of check() from request `page` on: how it ends, all_products,
\* the number of requests issued, the time slept between pages and the
\* requests issued, in the order issued (shopify_monitor.py:143-187)
RECURSIVE fetch_pages(_, _, _, _, _)
fetch_pages(srv, page, all_products, slept, requested) ==
    LET response == Respond(srv, page)
        done(outcome, error, products) ==
            [outcome |-> outcome, error |-> error, products |-> products,
             calls |-> page, slept |-> slept,
             requested |-> Append(requested, PageRequest(page, response))]
        failed(outcome, error) ==
            done(fail_page(outcome, all_products).outcome, error,
                 fail_page(outcome, all_products).products)
    IN  IF response.kind = "timeout" THEN failed("timeout", "Request timeout")
        ELSE IF response.kind = "error" THEN failed("exception", "connection failed")
        ELSE IF response.status = 429 THEN failed("rate_limited", "Rate limited")
        ELSE IF response.status = 401 \/ response.status = 403
            THEN failed("access_denied",
                        IF response.status = 401 THEN "Access denied (401)"
                        ELSE "Access denied (403)")
        ELSE IF response.status # 200 THEN failed("http_error", "HTTP 500")
        ELSE IF response.products = <<>> THEN done("ok", "", all_products)
        ELSE IF past_limit(page + 1)
            THEN done("ok", "", all_products \o response.products)
        ELSE fetch_pages(srv, page + 1, all_products \o response.products,
                         slept + PageDelay,
                         Append(requested, PageRequest(page, response)))

MonitorResult(success, error, rate_limited, products) ==
    [success |-> success, error |-> error,
     rate_limited |-> rate_limited, products |-> products]

\* the entry of one store in MultiStoreMonitor.get_stats
\* (shopify_monitor.py:553-561)
store_stats(st) ==
    [name |-> st.name, success_count |-> st.success_count,
     error_count |-> st.error_count, products_found |-> st.products_found,
     last_check |-> st.last_check]

\* faulty variant of backing_off: the poll at the moment the window ends still
\* fails fast
backing_off_at_expiry(t, until) == t <= until

\* time.time() < self._backoff_until (shopify_monitor.py:125)
backing_off(t, until) == t < until

\* faulty variant of CheckBackingOff: the fail-fast path counts as an error
CheckBackingOffCounted ==
    /\ result' = [success |-> FALSE, error |-> "Backing off",
                  rate_limited |-> TRUE, products |-> <<>>]
    /\ net_calls' = 0
    /\ polled' = [polled EXCEPT !.kind = "none", !.status = 0, !.requested = <<>>]
    /\ log' = <<>>
    /\ fetched' = <<>>
    /\ consecutive_errors' = consecutive_errors + 1
    /\ UNCHANGED <<target_sizes, seen_products, seen_variants, last_request_time,
                   backoff_until, store, now>>

\* check() while time.time() < _backoff_until (lines 125-126)
CheckBackingOff ==
    /\ result' = MonitorResult(FALSE, "Backing off", TRUE, <<>>)
    /\ net_calls' = 0
    /\ polled' = [polled EXCEPT !.kind = "none", !.status = 0, !.requested = <<>>]
    /\ log' = <<>>
    /\ fetched' = <<>>
    /\ UNCHANGED <<target_sizes, seen_products, seen_variants, last_request_time,
                   consecutive_errors, backoff_until, store, now>>

\* the clock when the first request is issued: the poller sleeps out the rest of
\* the store's minimum delay (lines 129-134)
RequestTime ==
    LET min_delay == (store.delay_ms * TicksPerSecond) \div 1000
    IN  IF now - last_request_time < min_delay
        THEN last_request_time + min_delay ELSE now

\* check() past the backoff test, against storefront `srv` (lines 128-217)
CheckFetch(srv) ==
    LET f == fetch_pages(srv, 1, <<>>, 0, <<>>)
        end_time == RequestTime + f.slept
        st == process_products(
                  [seen_products |-> seen_products, seen_variants |-> seen_variants,
                   detected |-> <<>>, products_found |-> store.products_found,
                   log |-> <<>>],
                  f.products, target_sizes)
    IN  /\ last_request_time' = RequestTime
        /\ now' = end_time
        /\ net_calls' = f.calls
        /\ polled' = LET last == Respond(srv, f.calls)
                         answered == last.kind = "http" /\ last.status = 200
                     IN  [kind |-> last.kind, status |-> last.status,
                          failed |-> IF answered THEN 0 ELSE polled.failed + 1,
                          requested |-> f.requested]
        /\ IF f.outcome = "ok" THEN
               /\ consecutive_errors' = 0
               /\ store' = [store EXCEPT !.success_count = @ + 1,
                                         !.last_check = end_time,
                                         !.products_found = st.products_found]
               /\ seen_products' = st.seen_products
               /\ seen_variants' = st.seen_variants
               /\ log' = st.log
               /\ fetched' = f.products
               /\ result' = MonitorResult(TRUE, "", FALSE, st.detected)
               /\ UNCHANGED backoff_until
           ELSE IF f.outcome = "rate_limited" THEN
               \* _handle_rate_limit (lines 219-224)
               /\ backoff_until' = end_time + backoff_time(consecutive_errors) * TicksPerSecond
               /\ consecutive_errors' = consecutive_errors + 1
               /\ store' = [store EXCEPT !.error_count = @ + 1]
               /\ result' = MonitorResult(FALSE, "Rate limited", TRUE, <<>>)
               /\ log' = <<>>
               /\ fetched' = <<>>
               /\ UNCHANGED <<seen_products, seen_variants>>
           ELSE
               /\ consecutive_errors' = count_error(consecutive_errors)
               /\ result' = MonitorResult(FALSE, f.error, FALSE, <<>>)
               /\ log' = <<>>
               /\ fetched' = <<>>
               /\ UNCHANGED <<seen_products, seen_variants, backoff_until, store>>
        /\ UNCHANGED target_sizes

-----------------------------------------------------------------------------
(* FootsiteMonitor: target sizes, parsing, change detection and check *)

\* re.sub(r'^(US|SIZE|M|W)\s*', '', s, flags=re.IGNORECASE) (footsites.py:123)
sub_size_prefix(s) ==
    LET u == upper(s)
        n == IF StartsWith(u, <<"U","S">>) THEN 2
             ELSE IF StartsWith(u, <<"S","I","Z","E">>) THEN 4
             ELSE IF StartsWith(u, <<"M">>) THEN 1
             ELSE IF StartsWith(u, <<"W">>) THEN 1
             ELSE 0
    IN  IF n = 0 THEN s ELSE lstrip(Drop(s, n))

\* FootsiteMonitor._normalize_sizes (footsites.py:117-125)
footsite_normalize_sizes(sizes) ==
    [i \in 1..Len(sizes) |-> strip(sub_size_prefix(strip(sizes[i])))]

\* one sellable unit of a product of the search API
Unit(size, in_stock) ==
    [code |-> size, size |-> size,
     stockLevelStatus |-> IF in_stock THEN "inStock" ELSE "outOfStock"]

\* product F: units of sizes 9, 10, 11; product G: one unit of size 10.5;
\* `stock` is the set of sizes in stock
FootProductF(stock) ==
    [sku |-> "F", name |-> "Panda Dunk",
     sellableUnits |-> <<Unit("9", "9" \in stock), Unit("10", "10" \in stock),
                         Unit("11", "11" \in stock)>>]

FootProductG(stock) ==
    [sku |-> "G", name |-> "Tee",
     sellableUnits |-> <<Unit("10.5", "10.5" \in stock)>>]

\* a record without a sku
FootProductNoSku ==
    [sku |-> "", name |-> "Tee", sellableUnits |-> <<Unit("10", TRUE)>>]

\* what _parse_product returns for a record it rejects
None == [sku |-> "", name |-> "", available_sizes |-> <<>>]

\* FootsiteMonitor._parse_product (footsites.py:259-305)
parse_product(data) ==
    LET in_stock == SelectSeq(data.sellableUnits,
                        LAMBDA u : u.stockLevelStatus = "inStock" /\ u.size # "")
        available_sizes == [i \in 1..Len(in_stock) |->
                               [size |-> in_stock[i].size, sku |-> in_stock[i].code]]
    IN  IF data.sku = "" THEN None
        ELSE IF available_sizes = <<>> THEN None
        ELSE [sku |-> data.sku, name |-> data.name, available_sizes |-> available_sizes]

SizeSet(available_sizes) == {available_sizes[i].size : i \in DOMAIN available_sizes}

\* faulty variant of is_new_or_restocked: the sizes are not compared
new_only(product, seen_skus, seen) == product.sku \notin seen_skus

\* faulty variant of is_new_or_restocked: every parsed product counts as changed
always_changed(product, seen_skus, seen) == TRUE

\* FootsiteMonitor._is_new_or_restocked (footsites.py:307-320)
is_new_or_restocked(product, seen_skus, seen) ==
    IF product.sku \notin seen_skus THEN TRUE
    ELSE IF product.sku \in DOMAIN seen
        THEN SizeSet(product.available_sizes) \ SizeSet(seen[product.sku].available_sizes) # {}
    ELSE FALSE

\* FootsiteMonitor._to_product_info (footsites.py:322-336)
to_product_info(product) ==
    [product_id |-> product.sku,
     title |-> product.name,
     sizes_available |-> [i \in DOMAIN product.available_sizes |->
                             product.available_sizes[i].size],
     variants |-> SizeSet(product.available_sizes)]

\* the body of the loop over the products of one search (lines 214-236);
\* fs is the monitor, detected the list built so far; parsed.name[:50] in the
\* arguments of logger.info (line 234) raises for a name that is not a str,
\* after the statements before it have run, and nothing in the loops catches
\* it: acc.raised, and the records that follow are not looked at
footsite_product(acc, data) ==
    LET fs == acc.monitor
        parsed == parse_product(data)
        matching == SelectSeq(parsed.available_sizes,
                        LAMBDA s : InSeq(Chars(s.size), fs.target_sizes))
    IN  IF acc.raised THEN acc
        ELSE IF parsed = None THEN acc
        ELSE IF ~is_new_or_restocked(parsed, fs.seen_skus, fs.seen_products) THEN acc
        ELSE IF fs.target_sizes # <<>> /\ matching = <<>> THEN acc
        ELSE [acc EXCEPT !.monitor = [fs EXCEPT !.seen_products = Put(@, parsed.sku, parsed),
                                                !.seen_skus = @ \cup {parsed.sku},
                                                !.products_found = @ + 1],
                         !.detected = Append(@, to_product_info(parsed)),
                         !.raised = info_raises(parsed.name)]

RECURSIVE footsite_products(_, _)
footsite_products(acc, products) ==
    IF products = <<>> THEN acc
    ELSE footsite_products(footsite_product(acc, products[1]), Tail(products))

\* search_products (footsites.py:159-183): the products of a 200 response, [] otherwise
search_products(response) ==
    IF response.kind = "http" /\ response.status = 200 THEN response.products ELSE <<>>

\* asyncio.sleep(0.5) after each search, in ticks
KeywordDelay == TicksPerSecond \div 2

\* the loop over the keywords (lines 210-240); responses[i] answers keywords[i];
\* acc.fetched are the records the searches returned, acc.slept the time slept
RECURSIVE footsite_keywords(_, _)
footsite_keywords(acc, responses) ==
    IF responses = <<>> \/ acc.raised THEN acc
    ELSE LET products == search_products(responses[1])
             searched == footsite_products([acc EXCEPT !.fetched = @ \o products],
                                           products)
         IN  footsite_keywords(IF searched.raised THEN searched
                               ELSE [searched EXCEPT !.slept = @ + KeywordDelay],
                               Tail(responses))

\* FootsiteMonitor.check (footsites.py:202-257)
FootsiteCheck(responses) ==
    LET counted == [footsite EXCEPT !.check_count = @ + 1]
        done == footsite_keywords([monitor |-> counted, detected |-> <<>>,
                                   raised |-> FALSE, fetched |-> <<>>, slept |-> 0],
                                  responses)
        end_time == now + done.slept
    IN  /\ Len(responses) = Len(footsite.keywords)
        /\ IF done.raised
           THEN /\ footsite' = [done.monitor EXCEPT !.error_count = @ + 1]
                /\ footsite_result' =
                       MonitorResult(FALSE, "'NoneType' object is not subscriptable",
                                     FALSE, <<>>)
           ELSE /\ footsite' = [done.monitor EXCEPT !.last_check = end_time]
                /\ footsite_result' = MonitorResult(TRUE, "", FALSE, done.detected)
        /\ footsite_fetched' = done.fetched
        /\ now' = end_time

-----------------------------------------------------------------------------
(* CuratedProduct.matches_title and ProductDatabase.match_product_title *)

\* "no curated product" (None)
NoCurated ==
    [name |-> "", brand |-> "", positive_keywords |-> <<>>, negative_keywords |-> <<>>,
     optimized_search |-> "", retail_price |-> 0, current_price |-> 0,
     profit_dollar |-> 0, profit_ratio |-> 0, priority |-> "", sku |-> "",
     style_code |-> "", source |-> "", enabled |-> FALSE]

\* CuratedProduct (products.py:16-33) with the defaults of its fields; prices
\* in dollars, profit_ratio in hundredths, None as ""
Curated(name, positive, negative, priority, profit_dollar) ==
    [name |-> name, brand |-> "", positive_keywords |-> positive,
     negative_keywords |-> negative, optimized_search |-> "", retail_price |-> 0,
     current_price |-> 0, profit_dollar |-> profit_dollar, profit_ratio |-> 0,
     priority |-> priority, sku |-> "", style_code |-> "", source |-> "manual",
     enabled |-> TRUE]

\* the curated products the database holds: "Nike Dunk Low Panda" of load_builtin
\* (products.py:231-242, the first two negative keywords) and a high-priority
\* product with one keyword
NikeDunkLowPanda ==
    Curated("Nike Dunk Low Panda",
            <<"dunk low panda", "panda dunk", "black white dunk", "dunk panda">>,
            <<"-kids", "-gs">>, "medium", 80)

GrailTee == Curated("Grail Tee", <<"tee">>, <<"-kids", "-gs">>, "high", 150)

\* a disabled product, one that ties with "Grail Tee", and one with five
\* keywords, a SKU and a style code
RetiredTee == [Curated("Retired Tee", <<"tee">>, <<>>, "high", 500) EXCEPT !.enabled = FALSE]

TeeTwin == Curated("Tee Twin", <<"tee">>, <<>>, "low", 10)

JordanFour ==
    [Curated("Jordan 4 Retro Black Cat",
             <<"jordan 4", "black cat", "aj4", "retro", "iv">>,
             <<"-kids", "-gs">>, "high", 150)
        EXCEPT !.sku = "CU1110", !.style_code = "010"]

\* ProductDatabase.products in insertion order (products.py:120-133)
product_db == <<RetiredTee, NikeDunkLowPanda, GrailTee, TeeTwin, JordanFour>>

\* faulty variant of lstrip_dash: the keyword is searched with its dashes
keep_dash(s) == s

\* neg.lstrip('-') (products.py:48)
RECURSIVE lstrip_dash(_)
lstrip_dash(s) == IF s # <<>> /\ s[1] = "-" THEN lstrip_dash(Tail(s)) ELSE s

\* min(1.0, matched_count / max(2, len(self.positive_keywords) * 0.5))
\* (products.py:62), in hundredths
base_confidence(matched_count, len) ==
    Min(100, (200 * matched_count) \div (IF len > 4 THEN len ELSE 4))

\* faulty variant of boost: the boosted confidence is not capped
uncapped_boost(confidence) == confidence + 30

\* min(1.0, confidence + 0.3) (products.py:66, 68)
boost(confidence) == Min(100, confidence + 30)

\* CuratedProduct.matches_title (products.py:39-70): [matches, confidence]
matches_title(curated, title) ==
    LET title_lower == lower(title)
        rejected == \E i \in DOMAIN curated.negative_keywords :
                        contains(title_lower,
                                 lower(lstrip_dash(Chars(curated.negative_keywords[i]))))
        matched_count ==
            Cardinality({i \in DOMAIN curated.positive_keywords :
                contains(title_lower, lower(Chars(curated.positive_keywords[i])))})
        confidence == base_confidence(matched_count, Len(curated.positive_keywords))
        with_sku == IF curated.sku # "" /\ contains(title_lower, lower(Chars(curated.sku)))
                    THEN boost(confidence) ELSE confidence
        with_style_code ==
            IF curated.style_code # ""
               /\ contains(title_lower, lower(Chars(curated.style_code)))
            THEN boost(with_sku) ELSE with_sku
    IN  IF rejected THEN [matches |-> FALSE, confidence |-> 0]
        ELSE IF matched_count = 0 THEN [matches |-> FALSE, confidence |-> 0]
        ELSE [matches |-> TRUE, confidence |-> with_style_code]

\* faulty variant of sort_matches: the matches stay in registry order
unsorted(matches) == matches

\* list.sort(key=confidence, reverse=True) (products.py:340): a stable sort,
\* highest confidence first
RECURSIVE sort_matches(_)
sort_matches(matches) ==
    IF matches = <<>> THEN <<>>
    ELSE LET best == CHOOSE i \in DOMAIN matches :
                        /\ \A j \in DOMAIN matches :
                               matches[j].confidence <= matches[i].confidence
                        /\ \A j \in 1..(i - 1) :
                               matches[j].confidence < matches[i].confidence
         IN  <<matches[best]>> \o
             sort_matches([j \in 1..(Len(matches) - 1) |->
                              IF j < best THEN matches[j] ELSE matches[j + 1]])

\* ProductDatabase.match_product_title (products.py:324-341) over the products
\* `products` of the database, in insertion order
match_in(products, title) ==
    LET scored == [i \in DOMAIN products |->
                      [product |-> products[i],
                       matches |-> matches_title(products[i], title).matches,
                       confidence |-> matches_title(products[i], title).confidence]]
    IN  sort_matches(SelectSeq(scored, LAMBDA m : m.product.enabled /\ m.matches))

\* product_db.match_product_title(title)
match_product_title(title) == match_in(product_db, title)

\* the titles the storefronts serve, and their matches, computed once
Titles ==
    {"Panda Dunk", "Tee", "Panda Dunk GS", "Dunk Panda Dunk", "Socks", "AJ4",
     "AJ4 Retro", "AJ4 Retro IV", "AJ4 CU1110", "AJ4 CU1110 010", "AJ4 Retro CU1110",
     "AJ4 010", "Panda Dunk AJ4 Retro"}

Matches == [t \in Titles |-> match_product_title(Chars(t))]

\* matches_title of every product of the registry on every title, computed once
Scores ==
    [i \in DOMAIN product_db |->
        [t \in Titles |-> matches_title(product_db[i], Chars(t))]]

\* a call and what it returned: matches_title returns `result`,
\* match_product_title returns `list`
Call(call, target, title, res, list) ==
    [call |-> call, target |-> target, title |-> title, result |-> res, list |-> list]

\* product_db[i].matches_title(title) called
MatchesTitle(i, title) ==
    /\ matched' = matched \cup
           {Call("matches_title", product_db[i], title, Scores[i][title], <<>>)}
    /\ UNCHANGED <<manager_vars, returned>>

\* product_db.match_product_title(title) called
MatchProductTitle(title) ==
    /\ matched' = matched \cup
           {Call("match_product_title", NoCurated, title,
                 [matches |-> FALSE, confidence |-> 0], Matches[title])}
    /\ UNCHANGED <<manager_vars, returned>>

-----------------------------------------------------------------------------
(* MultiStoreMonitor._handle_product and the Monitor Manager's event pipeline *)

DetectedProduct(info, store_name, matched_curated, match_confidence, is_restock) ==
    [info |-> info, store |-> store_name, matched_curated |-> matched_curated,
     match_confidence |-> match_confidence, is_restock |-> is_restock]

\* MultiStoreMonitor._handle_product (shopify_monitor.py:518-543): the
\* DetectedProduct handed to the callback; is_restock keeps its default
\* (shopify_monitor.py:47)
handle_product(store_name, product) ==
    LET matches == Matches[product.title]
    IN  IF matches # <<>>
        THEN DetectedProduct(product, store_name, matches[1].product,
                             matches[1].confidence, FALSE)
        ELSE DetectedProduct(product, store_name, NoCurated, 0, FALSE)

MonitorEvent(event_type, source, store_name, product, matched_product, match_confidence) ==
    [event_type |-> event_type, source |-> source, store_name |-> store_name,
     product |-> product, matched_product |-> matched_product,
     match_confidence |-> match_confidence]

\* MonitorEvent.priority (manager.py:37-41)
priority(event) ==
    IF event.matched_product # NoCurated THEN event.matched_product.priority ELSE "low"

\* MonitorManager._handle_shopify_product (manager.py:204-215): the event it builds
handle_shopify_product(detected) ==
    MonitorEvent(IF ~detected.is_restock THEN "new_product" ELSE "restock",
                 "shopify", detected.store, detected.info,
                 detected.matched_curated, detected.match_confidence)

\* MonitorManager._handle_footsite_product (manager.py:217-236): the event it builds
handle_footsite_product(site, product) ==
    LET matches == Matches[product.title]
    IN  MonitorEvent("new_product", "footsite", site, product,
                     IF matches # <<>> THEN matches[1].product ELSE NoCurated,
                     IF matches # <<>> THEN matches[1].confidence ELSE 0)

\* priority_levels.get(level, default) (manager.py:287-289)
priority_level(level, default) ==
    IF level = "low" THEN 0
    ELSE IF level = "medium" THEN 1
    ELSE IF level = "high" THEN 2
    ELSE default

\* faulty variant of should_create_task: the priority tier is not compared
confident_enough(m, event) ==
    IF event.matched_product = NoCurated THEN FALSE
    ELSE event.match_confidence >= m.auto_task_min_confidence

\* MonitorManager._should_create_task (manager.py:279-291)
should_create_task(m, event) ==
    IF event.matched_product = NoCurated THEN FALSE
    ELSE IF event.match_confidence < m.auto_task_min_confidence THEN FALSE
    ELSE priority_level(priority(event), 0) >= priority_level(m.auto_task_min_priority, 1)

\* faulty variant of keep_last: the newest events are the ones dropped
keep_first(events, max_events) ==
    IF Len(events) > max_events THEN SubSeq(events, 1, max_events) ELSE events

\* self._events[-self._max_events:] (manager.py:245)
keep_last(events, max_events) ==
    IF Len(events) > max_events
    THEN SubSeq(events, Len(events) - max_events + 1, Len(events))
    ELSE events

\* faulty variant of is_high_priority: the profit of the match is not looked at
high_priority_only(event) == priority(event) = "high"

\* faulty variant of is_high_priority: the priority of the match is not looked at
profit_only(event) ==
    event.matched_product # NoCurated /\ event.matched_product.profit_dollar > 100

\* is_high_priority (manager.py:260-263)
is_high_priority(event) ==
    \/ priority(event) = "high"
    \/ event.matched_product # NoCurated /\ event.matched_product.profit_dollar > 100

Invocation(callback, event) == [callback |-> callback, event |-> event]

\* the callbacks _process_event awaits for `event`, in the order it awaits them
\* (manager.py:265-273); a callback returns
callbacks(m, event) ==
    (IF is_high_priority(event) /\ m.on_high_priority
     THEN <<Invocation("on_high_priority", event)>> ELSE <<>>)
    \o (IF m.on_event THEN <<Invocation("on_event", event)>> ELSE <<>>)

\* MonitorManager._process_event (manager.py:238-277) with _create_auto_task
\* (manager.py:293-305); m.invoked lists the callback invocations made so far
process_event(m, event) ==
    [m EXCEPT !.total_products_found = @ + 1,
              !.events = keep_last(Append(@, event), m.max_events),
              !.high_priority_found = IF is_high_priority(event) THEN @ + 1 ELSE @,
              !.invoked = @ \o callbacks(m, event),
              !.tasks_created =
                  IF m.auto_task_enabled /\ should_create_task(m, event)
                  THEN @ + 1 ELSE @]

RECURSIVE process_events(_, _)
process_events(m, events) ==
    IF events = <<>> THEN m
    ELSE process_events(process_event(m, events[1]), Tail(events))

\* MonitorManager.enable_auto_tasks (manager.py:144-158)
EnableAutoTasks(enabled, min_confidence, min_priority) ==
    /\ manager' = [manager EXCEPT !.auto_task_enabled = enabled,
                                  !.auto_task_min_confidence = min_confidence,
                                  !.auto_task_min_priority = min_priority]
    /\ UNCHANGED arrived

\* the callback _handle_shopify_product invoked with `detected`
HandleShopifyProduct(detected) ==
    /\ manager' = process_event(manager, handle_shopify_product(detected))
    /\ arrived' = Append(arrived, handle_shopify_product(detected))

\* the callback _handle_footsite_product invoked with `site` and `product`
HandleFootsiteProduct(site, product) ==
    /\ manager' = process_event(manager, handle_footsite_product(site, product))
    /\ arrived' = Append(arrived, handle_footsite_product(site, product))

\* MonitorManager.set_event_callback (manager.py:136-138)
SetEventCallback ==
    /\ manager' = [manager EXCEPT !.on_event = TRUE]
    /\ UNCHANGED arrived

\* MonitorManager.set_high_priority_callback (manager.py:140-142)
SetHighPriorityCallback ==
    /\ manager' = [manager EXCEPT !.on_high_priority = TRUE]
    /\ UNCHANGED arrived

\* no activation of _process_event is in progress for a store loop
Idle == [pc |-> "idle"]

\* an activation of _process_event for `event`, suspended at the await of the
\* callback `pc`
Suspended(event, pc) == [pc |-> pc, event |-> event]

\* faulty variant of store_event: the log is cut on a later resumption
append_only(events, event, max_events) == Append(events, event)

\* self._events.append(event) and the cut to the newest _max_events
\* (manager.py:243-245)
store_event(events, event, max_events) ==
    keep_last(Append(events, event), max_events)

\* _process_event from its entry to its first await (manager.py:240-263):
\* nothing in these statements suspends the coroutine
record_event(m, event) ==
    [m EXCEPT !.total_products_found = @ + 1,
              !.events = store_event(@, event, m.max_events),
              !.high_priority_found = IF is_high_priority(event) THEN @ + 1 ELSE @]

\* the callback _process_event awaits next once it is past `pc`, "done" when
\* there is none (manager.py:265-273); the callbacks are read when reached
await_after(pc, m, event) ==
    IF pc = "entry" /\ is_high_priority(event) /\ m.on_high_priority
    THEN "on_high_priority"
    ELSE IF pc # "on_event" /\ m.on_event THEN "on_event"
    ELSE "done"

\* the end of _process_event (manager.py:275-277) with _create_auto_task
\* (manager.py:293-305), which has no await of its own
create_auto_task(m, event) ==
    [m EXCEPT !.tasks_created =
                  IF m.auto_task_enabled /\ should_create_task(m, event)
                  THEN @ + 1 ELSE @]

\* the activation of `store_name`'s loop goes on from `m` past `pc`: it calls
\* the next callback and is suspended at its await, or runs to its end
proceed(store_name, m, event, pc) ==
    LET next == await_after(pc, m, event)
    IN  /\ manager' = IF next = "done" THEN create_auto_task(m, event)
                      ELSE [m EXCEPT !.invoked = Append(@, Invocation(next, event))]
        /\ handlers' = [handlers EXCEPT ![store_name] =
                            IF next = "done" THEN Idle ELSE Suspended(event, next)]

\* the loop of `store_name` awaits _process_event(event): the coroutine runs to
\* its first await
ProcessEvent(store_name, event) ==
    /\ handlers[store_name] = Idle
    /\ proceed(store_name, record_event(manager, event), event, "entry")
    /\ arrived' = Append(arrived, event)

\* the loop of detected.store awaits _handle_shopify_product(detected)
\* (manager.py:204-215)
ShopifyDetected(detected) ==
    ProcessEvent(detected.store, handle_shopify_product(detected))

\* the loop of `site` awaits _handle_footsite_product(site, product)
\* (manager.py:217-236)
FootsiteDetected(site, product) ==
    ProcessEvent(site, handle_footsite_product(site, product))

\* the callback the activation of `store_name`'s loop awaits returns, and the
\* activation runs to its next await
CallbackReturns(store_name) ==
    LET handler == handlers[store_name]
    IN  /\ handler # Idle
        /\ proceed(store_name, manager, handler.event, handler.pc)
        /\ UNCHANGED arrived

\* faulty variant of last_items: the oldest items are the ones returned
first_items(items, limit) ==
    IF limit >= Len(items) THEN items ELSE SubSeq(items, 1, limit)

\* items[-limit:] (manager.py:332, 337): the Python slice, for any integer limit
last_items(items, limit) ==
    LET n == Len(items)
        start == IF limit > 0
                 THEN (IF limit >= n THEN 1 ELSE n - limit + 1)
                 ELSE (IF -limit >= n THEN n + 1 ELSE 1 - limit)
    IN  SubSeq(items, start, n)

\* MonitorManager.get_recent_events (manager.py:330-332)
get_recent_events(m, limit) == last_items(m.events, limit)

\* MonitorManager.get_high_priority_events (manager.py:334-337)
get_high_priority_events(m, limit) ==
    last_items(SelectSeq(m.events, LAMBDA e : priority(e) = "high"), limit)

\* what a query returned: the call, its argument, the list returned, and the
\* event log it was answered from
Returned(call, limit, events, from) ==
    [call |-> call, limit |-> limit, events |-> events, from |-> from]

GetRecentEvents(limit) ==
    /\ returned' = Returned("get_recent_events", limit,
                            get_recent_events(manager, limit), manager.events)
    /\ UNCHANGED <<manager_vars, matched>>

GetHighPriorityEvents(limit) ==
    /\ returned' = Returned("get_high_priority_events", limit,
                            get_high_priority_events(manager, limit), manager.events)
    /\ UNCHANGED <<manager_vars, matched>>

-----------------------------------------------------------------------------
(* MultiStoreMonitor and MultiFootsiteMonitor: start(), stop() and the store *)
(* loops.  The two classes have the same start, stop and loop, so `c` names  *)
(* the coordinator.  A coroutine runs uninterrupted from one await that      *)
(* suspends to the next, and each action is one such segment.  The poll of a *)
(* loop is its outcome only: how many detections check() returned, that it   *)
(* failed, or that it raised.                                                *)

Coordinators == {"shopify", "footsite"}

\* the stores of MultiStoreMonitor.stores / the sites of MultiFootsiteMonitor
StoresOf(c) == IF c = "shopify" THEN <<"Kith", "Undefeated">> ELSE <<"footlocker">>

AllStores == {"Kith", "Undefeated", "footlocker", "KITH", "Kith NYC"}

-----------------------------------------------------------------------------
(* MultiStoreMonitor's store registry and proxy pool *)

\* str.replace(" ", "_") (shopify_monitor.py:418)
underscored(s) == [i \in 1..Len(s) |-> IF s[i] = " " THEN "_" ELSE s[i]]

\* store_id = name.lower().replace(" ", "_") (shopify_monitor.py:418)
store_id_of(name) == underscored(lower(Chars(name)))

\* an entry of self.stores: the key and, of the ShopifyStoreMonitor under it,
\* store.name and proxy_url ("" for None)
Registered(name, proxy_url) ==
    [store_id |-> store_id_of(name), name |-> name, proxy_url |-> proxy_url]

\* faulty variant of next_index: the rotation does not advance
same_index(index) == index

\* self._proxy_index += 1 (shopify_monitor.py:457)
next_index(index) == index + 1

\* MultiStoreMonitor._get_next_proxy (shopify_monitor.py:452-459): the proxy
\* returned ("" for None) and the index left behind
get_next_proxy(f) ==
    IF f.proxies = <<>>
    THEN [proxy |-> "", proxy_index |-> f.proxy_index]
    ELSE [proxy |-> f.proxies[(f.proxy_index % Len(f.proxies)) + 1],
          proxy_index |-> next_index(f.proxy_index)]

\* self.stores[store_id] = monitor (shopify_monitor.py:429): a key already in
\* the dict keeps its place and gets the new monitor
put_store(stores, entry) ==
    IF \E i \in DOMAIN stores : stores[i].store_id = entry.store_id
    THEN [i \in DOMAIN stores |->
             IF stores[i].store_id = entry.store_id THEN entry ELSE stores[i]]
    ELSE Append(stores, entry)

\* MultiStoreMonitor.add_store (shopify_monitor.py:410-432); `added` records
\* the call: the store, the proxy it got, the pool at that moment and the
\* number of set_proxies calls before it
add_store(f, name) ==
    LET next == get_next_proxy(f)
        entry == Registered(name, next.proxy)
    IN  [f EXCEPT !.proxy_index = next.proxy_index,
                  !.stores = put_store(@, entry),
                  !.added = Append(@, [store_id |-> entry.store_id,
                                       proxy_url |-> next.proxy,
                                       proxies |-> f.proxies,
                                       epoch |-> f.epoch])]

\* MultiStoreMonitor.set_proxies (shopify_monitor.py:447-450)
set_proxies(f, proxies) ==
    [f EXCEPT !.proxies = proxies, !.epoch = @ + 1]

\* the names of the entries of self.stores, in the order of the dict
names_of(stores) == [i \in DOMAIN stores |-> stores[i].name]

\* MonitorManager.add_shopify_store (manager.py:307-319): the coordinator is
\* created when the manager has none
AddShopifyStore(name) ==
    /\ manager' = [manager EXCEPT !.shopify_monitor = TRUE]
    /\ fleet' = add_store(fleet, name)
    /\ coordinators' = [coordinators EXCEPT !["shopify"].stores = names_of(fleet'.stores)]
    /\ UNCHANGED <<shopify_vars, footsite_vars, arrived, lookup_vars,
                   loops, sessions, calls, exchange, handler_vars>>

\* MultiStoreMonitor.set_proxies called on the manager's coordinator
SetProxies(proxies) ==
    /\ manager.shopify_monitor
    /\ fleet' = set_proxies(fleet, proxies)
    /\ UNCHANGED <<shopify_vars, footsite_vars, manager_vars, lookup_vars,
                   lifecycle_vars, exchange, handler_vars>>

\* self.shopify_monitor / self.footsite_monitor is not None
configured(c) ==
    IF c = "shopify" THEN manager.shopify_monitor ELSE manager.footsite_monitor

\* the sleep after a check (shopify_monitor.py:510, footsites.py:431), in ticks
delay_of(c) == ((IF c = "shopify" THEN 3000 ELSE 5000) * TicksPerSecond) \div 1000

FaultSleepSeconds == 5

\* the sleep after a fault (shopify_monitor.py:516, footsites.py:437), in ticks
fault_sleep == FaultSleepSeconds * TicksPerSecond

\* an asyncio task running _monitor_store / _monitor_loop for one store: where
\* it is suspended, whether cancel() was called on it, the sleep it is in, the
\* number of detections its latest check() returned and the ones forwarded
Loop(c, store_name, pc, cancel) ==
    [coordinator |-> c, store |-> store_name, pc |-> pc, cancel |-> cancel,
     sleep |-> 0, result |-> 0, forwarded |-> <<>>]

Done(loop) == loop.pc \in {"cancelled", "finished"}

\* the loop in the sleep that ends an iteration (shopify_monitor.py:510,
\* footsites.py:431)
asleep(loop) ==
    [Loop(loop.coordinator, loop.store, "sleeping", FALSE)
        EXCEPT !.sleep = delay_of(loop.coordinator)]

\* faulty variant of recovering: a fault ends the loop
give_up(loop) == Loop(loop.coordinator, loop.store, "finished", FALSE)

\* the loop in the sleep of its fault handler (shopify_monitor.py:514-516,
\* footsites.py:435-437)
recovering(loop) ==
    [Loop(loop.coordinator, loop.store, "recovering", FALSE) EXCEPT !.sleep = fault_sleep]

\* a start() or stop() call: of the coordinator `c`, or of the manager when c
\* is "manager"; `parent` is the call of the manager that gathers it, 0 for a
\* call made from outside
CallOf(id, op, c, parent) ==
    [id |-> id, op |-> op, coordinator |-> c, pc |-> "scheduled", awaiting |-> {},
     closing |-> 0, parent |-> parent]

NoCall == CallOf(0, "", "", 0)

\* the calls in progress after `call` moved on, and the call that returned in
\* this step if one did: a call that returned is kept only while a gather of
\* the manager waits for it
settle(active, call) ==
    LET remaining == SelectSeq(active, LAMBDA other : other.id # call.id)
        kept == IF call.pc = "returned" /\ call.parent = 0 THEN remaining
                ELSE IF \E i \in DOMAIN active : active[i].id = call.id
                THEN [i \in DOMAIN active |->
                         IF active[i].id = call.id THEN call ELSE active[i]]
                ELSE Append(active, call)
    IN  [active |-> kept,
         returned |-> IF call.pc = "returned" THEN call ELSE NoCall]

\* no call returned in this step
NoneReturned == calls' = [calls EXCEPT !.returned = NoCall]

\* a stop() of the coordinator is in progress
stopping(c) ==
    \E i \in DOMAIN calls.active :
        calls.active[i].op = "stop" /\ calls.active[i].coordinator = c

\* MultiStoreMonitor.start (shopify_monitor.py:465-477) and
\* MultiFootsiteMonitor.start (footsites.py:390-401); it does not suspend.
\* `overlapped` records that loops were created while a stop() was in progress
start(call) ==
    LET c == call.coordinator
        co == coordinators[c]
    IN  /\ IF co.running
           THEN UNCHANGED <<coordinators, loops>>
           ELSE /\ coordinators' =
                       [coordinators EXCEPT
                           ![c].running = TRUE,
                           ![c].overlapped = @ \/ (co.stores # <<>> /\ stopping(c)),
                           ![c].tasks = @ \o [i \in DOMAIN co.stores |-> Len(loops) + i]]
                /\ loops' = loops \o [i \in DOMAIN co.stores |->
                                         Loop(c, co.stores[i], "created", FALSE)]
        /\ calls' = settle(calls.active, [call EXCEPT !.pc = "returned"])
        /\ UNCHANGED sessions

\* for monitor in self.stores.values(): await monitor.close(), from store
\* `from` on (shopify_monitor.py:494-495 with close, 376-380): a store without a
\* session is passed without suspending; the index of the store whose aclose()
\* is awaited, 0 when every store is passed
RECURSIVE close_from(_, _, _)
close_from(stores, from, sess) ==
    IF from > Len(stores) THEN 0
    ELSE IF sess[stores[from]] = "none" THEN close_from(stores, from + 1, sess)
    ELSE from

\* faulty variant of finished: stop() does not wait for the loops
fire_and_forget(awaiting) == TRUE

\* asyncio.gather(*self._tasks, return_exceptions=True) is done
\* (shopify_monitor.py:488-489)
finished(awaiting) == \A t \in awaiting : Done(loops[t])

\* stop() up to its first suspension (shopify_monitor.py:479-489): _running is
\* cleared and every task of _tasks is cancelled; with no task there is no
\* gather and the sessions are closed at once
stop(call) ==
    LET c == call.coordinator
        co == coordinators[c]
        tracked == {co.tasks[i] : i \in DOMAIN co.tasks}
        at == close_from(co.stores, 1, sessions)
        next == IF co.tasks # <<>>
                THEN [call EXCEPT !.pc = "gather", !.awaiting = tracked]
                ELSE IF at # 0 THEN [call EXCEPT !.pc = "closing", !.closing = at]
                ELSE [call EXCEPT !.pc = "returned"]
    IN  /\ loops' = [t \in DOMAIN loops |->
                        IF t \in tracked /\ ~Done(loops[t])
                        THEN [loops[t] EXCEPT !.cancel = TRUE] ELSE loops[t]]
        /\ coordinators' = [coordinators EXCEPT ![c].running = FALSE]
        /\ sessions' = IF next.pc = "closing"
                       THEN [sessions EXCEPT ![co.stores[at]] = "closing"]
                       ELSE sessions
        /\ calls' = settle(calls.active, next)

\* stop() resumed after the gather (shopify_monitor.py:491-495): the task list
\* is cleared, whatever it holds by now, and the sessions are closed
StopGathered(call) ==
    LET c == call.coordinator
        co == coordinators[c]
        at == close_from(co.stores, 1, sessions)
        next == IF at # 0 THEN [call EXCEPT !.pc = "closing", !.closing = at]
                ELSE [call EXCEPT !.pc = "returned"]
    IN  /\ call.coordinator \in Coordinators
        /\ call.op = "stop"
        /\ call.pc = "gather"
        /\ finished(call.awaiting)
        /\ coordinators' = [coordinators EXCEPT ![c].tasks = <<>>]
        /\ sessions' = IF next.pc = "closing"
                       THEN [sessions EXCEPT ![co.stores[at]] = "closing"]
                       ELSE sessions
        /\ calls' = settle(calls.active, next)
        /\ UNCHANGED loops

\* stop() resumed after an aclose() (shopify_monitor.py:379-380, 494-495): the
\* store's _session becomes None, and the next store is closed
StopSessionClosed(call) ==
    LET c == call.coordinator
        co == coordinators[c]
        closed == [sessions EXCEPT ![co.stores[call.closing]] = "none"]
        at == close_from(co.stores, call.closing + 1, closed)
        next == IF at # 0 THEN [call EXCEPT !.closing = at]
                ELSE [call EXCEPT !.pc = "returned"]
    IN  /\ call.coordinator \in Coordinators
        /\ call.op = "stop"
        /\ call.pc = "closing"
        /\ sessions' = IF at # 0 THEN [closed EXCEPT ![co.stores[at]] = "closing"]
                       ELSE closed
        /\ calls' = settle(calls.active, next)
        /\ UNCHANGED <<coordinators, loops>>

\* _monitor_store / _monitor_loop at `while self._running`
\* (shopify_monitor.py:501-503, footsites.py:422-424), when the task first
\* runs or its sleep is over: a check() begins, with the session _get_session
\* returns (shopify_monitor.py:102-120), or the loop ends.  `sessions` holds
\* the sessions of the coordinators the manager has, not those of a
\* coordinator it has replaced
LoopResume(t) ==
    LET loop == loops[t]
    IN  /\ loop.pc \in {"created", "sleeping", "recovering"}
        /\ ~loop.cancel
        /\ IF coordinators[loop.coordinator].running
           THEN /\ loops' = [loops EXCEPT
                                ![t] = Loop(loop.coordinator, loop.store, "checking", FALSE)]
                /\ sessions' = IF loop.coordinator \in Coordinators
                               THEN [sessions EXCEPT ![loop.store] = "open"]
                               ELSE sessions
           ELSE /\ loops' = [loops EXCEPT
                                ![t] = Loop(loop.coordinator, loop.store, "finished", FALSE)]
                /\ UNCHANGED sessions
        /\ NoneReturned
        /\ UNCHANGED coordinators

MaxDetections == 2

Outcome(kind, detections) == [kind |-> kind, detections |-> detections]

\* what `await monitor.check()` does: it returns a failure, raises, or returns
\* a success with 0..MaxDetections detections
CheckOutcomes ==
    {Outcome("failure", 0), Outcome("fault", 0)}
    \cup {Outcome("success", n) : n \in 0..MaxDetections}

\* faulty variant of next_detection: the same detection is forwarded again
repeat_detection(forwarded) == Append(forwarded, forwarded[Len(forwarded)])

\* for product in result.products (shopify_monitor.py:506-507,
\* footsites.py:427-429): the detections forwarded once the next one is
next_detection(forwarded) == Append(forwarded, Len(forwarded) + 1)

\* check() is over (shopify_monitor.py:503-516, footsites.py:424-437): the
\* handler is called with the first detection, or the loop sleeps
LoopCheckReturns(t, outcome) ==
    LET loop == loops[t]
    IN  /\ loop.pc = "checking"
        /\ ~loop.cancel
        /\ loops' =
               IF outcome.kind = "fault"
               THEN [loops EXCEPT ![t] = recovering(loop)]
               ELSE IF outcome.kind = "failure" \/ outcome.detections = 0
               THEN [loops EXCEPT ![t] = asleep(loop)]
               ELSE [loops EXCEPT ![t].pc = "handling",
                                  ![t].result = outcome.detections,
                                  ![t].forwarded = <<1>>]
        /\ NoneReturned
        /\ UNCHANGED <<coordinators, sessions>>

\* the handler called with a detection is over (shopify_monitor.py:505-516,
\* footsites.py:426-437): it raised and the loop sleeps 5 seconds, or it
\* returned and the handler is called with the next detection, or the loop
\* sleeps
LoopHandlerReturns(t, raised) ==
    LET loop == loops[t]
    IN  /\ loop.pc = "handling"
        /\ ~loop.cancel
        /\ loops' =
               IF raised
               THEN [loops EXCEPT ![t] = recovering(loop)]
               ELSE IF Len(loop.forwarded) < loop.result
               THEN [loops EXCEPT ![t].forwarded = next_detection(@)]
               ELSE [loops EXCEPT ![t] = asleep(loop)]
        /\ NoneReturned
        /\ UNCHANGED <<coordinators, sessions>>

\* the task resumes with CancelledError at the await it is suspended in, or
\* before it ever ran (shopify_monitor.py:512-513, footsites.py:433-434; inside
\* the sleep of the fault handler the error leaves the coroutine)
LoopCancelled(t) ==
    LET loop == loops[t]
    IN  /\ loop.cancel
        /\ ~Done(loop)
        /\ loops' = [loops EXCEPT
                        ![t] = Loop(loop.coordinator, loop.store, "cancelled", TRUE)]
        /\ NoneReturned
        /\ UNCHANGED <<coordinators, sessions>>

-----------------------------------------------------------------------------
(* ProductDatabase: add_product, export_to_json and load_from_json.  The     *)
(* database is a sequence of entries [id, product] in the insertion order of *)
(* the dict; the exported document is the list under "keywords_by_shoe".     *)
(* json.dump and json.load give back the numbers, strings, lists, booleans   *)
(* and None they are given.                                                  *)

\* str(n) of a natural number
RECURSIVE decimal(_)
decimal(n) ==
    IF n < 10 THEN <<DigitChars[n + 1]>>
    ELSE decimal(n \div 10) \o <<DigitChars[(n % 10) + 1]>>

IdLength == 50

\* product.name.lower().replace(" ", "_").replace("-", "_")[:50] (products.py:123)
slug(name) ==
    LET spaced == underscored(lower(name))
        whole == [i \in 1..Len(spaced) |-> IF spaced[i] = "-" THEN "_" ELSE spaced[i]]
    IN  SubSeq(whole, 1, Min(IdLength, Len(whole)))

\* the first of base_id, base_id_1, base_id_2, ... that is not a key of the
\* database (products.py:126-130)
RECURSIVE unique_id(_, _, _)
unique_id(entries, base_id, counter) ==
    LET product_id == IF counter = 0 THEN base_id
                      ELSE base_id \o <<"_">> \o decimal(counter)
    IN  IF \E i \in DOMAIN entries : entries[i].id = product_id
        THEN unique_id(entries, base_id, counter + 1)
        ELSE product_id

\* ProductDatabase.add_product (products.py:120-145): the dict of products
add_product(entries, product) ==
    Append(entries, [id |-> unique_id(entries, slug(Chars(product.name)), 0),
                     product |-> product])

\* CuratedProduct.to_dict (products.py:72-86)
to_dict(product) ==
    [name |-> product.name, brand |-> product.brand,
     positive_keywords |-> product.positive_keywords,
     negative_keywords |-> product.negative_keywords,
     optimized_search |-> product.optimized_search,
     retail_price |-> product.retail_price, current_price |-> product.current_price,
     profit_dollar |-> product.profit_dollar, profit_ratio |-> product.profit_ratio,
     priority |-> product.priority, sku |-> product.sku,
     enabled |-> product.enabled]

\* data.get(key, default), and data.get(key) with "" for None
get(data, key, default) == IF key \in DOMAIN data THEN data[key] ELSE default

\* CuratedProduct.from_dict (products.py:88-105)
from_dict(data) ==
    [name |-> get(data, "name", ""), brand |-> get(data, "brand", ""),
     positive_keywords |-> get(data, "positive_keywords", <<>>),
     negative_keywords |-> get(data, "negative_keywords", <<>>),
     optimized_search |-> get(data, "optimized_search", ""),
     retail_price |-> get(data, "retail_price", 0),
     current_price |-> get(data, "current_price", 0),
     profit_dollar |-> get(data, "profit_dollar", 0),
     profit_ratio |-> get(data, "profit_ratio", 0),
     priority |-> get(data, "priority", "medium"),
     sku |-> get(data, "sku", ""),
     style_code |-> get(data, "style_code", ""),
     source |-> get(data, "source", "imported"),
     enabled |-> get(data, "enabled", TRUE)]

\* the "keywords_by_shoe" list of ProductDatabase.export_to_json
\* (products.py:350-359)
export_to_json(entries) == [i \in DOMAIN entries |-> to_dict(entries[i].product)]

\* ProductDatabase.load_from_json (products.py:147-166) of a document with the
\* list `items`, into the database `entries`
RECURSIVE load_from_json(_, _)
load_from_json(entries, items) ==
    IF items = <<>> THEN entries
    ELSE load_from_json(add_product(entries, from_dict(items[1])), Tail(items))

products_of(entries) == [i \in DOMAIN entries |-> entries[i].product]

\* faulty variant of index_add: the list under the key is replaced
index_replace(index, key, product_id) == Put(index, key, <<product_id>>)

\* if key not in index: index[key] = []; index[key].append(product_id)
\* (products.py:136-138, 141-143)
index_add(index, key, product_id) ==
    Put(index, key, (IF key \in DOMAIN index THEN index[key] ELSE <<>>) \o <<product_id>>)

\* ProductDatabase.add_product (products.py:120-145) on the database `db`:
\* the dict of products and the two indexes
add_to(db, product) ==
    LET product_id == unique_id(db.products, slug(Chars(product.name)), 0)
    IN  [db EXCEPT !.products = add_product(@, product),
                   !.by_brand = index_add(@, lower(Chars(product.brand)), product_id),
                   !.by_priority = index_add(@, product.priority, product_id)]

\* two of the products load_builtin adds (products.py:207-218, 231-242)
builtin_products == <<JordanFour, NikeDunkLowPanda>>

\* ProductDatabase.load_builtin (products.py:168-296): add_product for every
\* built-in product, whatever the database holds
load_builtin(db) ==
    LET RECURSIVE add_all(_, _)
        add_all(to, products) ==
            IF products = <<>> THEN to
            ELSE add_all(add_to(to, products[1]), Tail(products))
    IN  add_all(db, builtin_products)

\* product_db.add_product(product)
AddProduct(product) ==
    /\ exchange' = add_to(exchange, product)
    /\ UNCHANGED <<shopify_vars, footsite_vars, manager_vars, lookup_vars,
                   lifecycle_vars, fleet, handler_vars>>

\* product_db.export_to_json(path): `exported` is the database at that moment
ExportToJson ==
    /\ exchange' = [exchange EXCEPT !.document = export_to_json(exchange.products),
                                    !.written = TRUE,
                                    !.exported = exchange.products]
    /\ UNCHANGED <<shopify_vars, footsite_vars, manager_vars, lookup_vars,
                   lifecycle_vars, fleet, handler_vars>>

\* load_from_json(path) of the exported document on an empty ProductDatabase
LoadFromJson ==
    /\ exchange.written
    /\ exchange' = [exchange EXCEPT !.loaded = load_from_json(<<>>, exchange.document),
                                    !.read = TRUE,
                                    !.imported = exchange.exported]
    /\ UNCHANGED <<shopify_vars, footsite_vars, manager_vars, lookup_vars,
                   lifecycle_vars, fleet, handler_vars>>

-----------------------------------------------------------------------------
(* Construction *)

\* the target_sizes argument of the constructors
TargetConfigs == {<<>>, <<"10", "10.5">>, <<"m">>}

CharsOfAll(strs) == [i \in DOMAIN strs |-> Chars(strs[i])]

StartTime == 1000

\* ShopifyStoreMonitor.__init__ (shopify_monitor.py:69-91) over a fresh
\* MonitoredStore (shopify_monitor.py:29-37)
ShopifyInit(config) ==
    /\ target_sizes = normalize_sizes(CharsOfAll(config))
    /\ seen_products = <<>>
    /\ seen_variants = <<>>
    /\ last_request_time = 0
    /\ consecutive_errors = 0
    /\ backoff_until = 0
    /\ store = [name |-> "Kith", delay_ms |-> 3000, last_check |-> -1,
                error_count |-> 0, success_count |-> 0, products_found |-> 0]
    /\ now = StartTime
    /\ result = MonitorResult(FALSE, "", FALSE, <<>>)
    /\ log = <<>>
    /\ fetched = <<>>
    /\ net_calls = 0
    /\ polled = [kind |-> "none", status |-> 0, failed |-> 0, requested |-> <<>>]

\* FootsiteMonitor.__init__ (footsites.py:87-115)
FootsiteInit(config) ==
    /\ footsite = [site_name |-> "footlocker", keywords |-> <<"dunk", "tee">>,
                   target_sizes |-> footsite_normalize_sizes(CharsOfAll(config)),
                   seen_products |-> <<>>, seen_skus |-> {}, last_check |-> -1,
                   check_count |-> 0, products_found |-> 0, error_count |-> 0]
    /\ footsite_result = MonitorResult(FALSE, "", FALSE, <<>>)
    /\ footsite_fetched = <<>>

\* the capacity of the event log; 1000 in manager.py:62
MaxEvents == 2

DefaultMinConfidence == 70

\* MonitorManager.__init__ (manager.py:56-78), with setup_shopify and / or
\* setup_footsites (manager.py:80-123) when the monitor is configured
ManagerInit(shopify, footsites) ==
    /\ manager = [shopify_monitor |-> shopify, footsite_monitor |-> footsites,
                  events |-> <<>>, max_events |-> MaxEvents,
                  auto_task_enabled |-> FALSE,
                  auto_task_min_confidence |-> DefaultMinConfidence,
                  auto_task_min_priority |-> "medium",
                  total_products_found |-> 0, high_priority_found |-> 0,
                  tasks_created |-> 0,
                  on_event |-> FALSE, on_high_priority |-> FALSE, invoked |-> <<>>,
                  running |-> FALSE]
    /\ arrived = <<>>
    /\ returned = Returned("", 0, <<>>, <<>>)
    /\ matched = {}
    /\ coordinators =
           [c \in Coordinators |->
               [running |-> FALSE, tasks |-> <<>>,
                stores |-> IF (c = "shopify" /\ shopify) \/ (c = "footsite" /\ footsites)
                           THEN StoresOf(c) ELSE <<>>,
                overlapped |-> FALSE]]
    /\ loops = <<>>
    /\ sessions = [s \in AllStores |-> "none"]
    /\ calls = [active |-> <<>>, returned |-> NoCall]
    /\ fleet = [proxies |-> <<>>, proxy_index |-> 0,
                stores |-> IF shopify
                           THEN [i \in DOMAIN StoresOf("shopify") |->
                                    Registered(StoresOf("shopify")[i], "")]
                           ELSE <<>>,
                added |-> <<>>, epoch |-> 0]
    /\ exchange = [products |-> <<>>, by_brand |-> <<>>, by_priority |-> <<>>,
                   document |-> <<>>, written |-> FALSE,
                   exported |-> <<>>, loaded |-> <<>>, read |-> FALSE,
                   imported |-> <<>>]
    /\ handlers = [s \in AllStores |-> Idle]

\* one family of pollers is set up, with any of the target-size configurations
OneFamilyInit ==
    \E config \in TargetConfigs :
        \/ ShopifyInit(config) /\ FootsiteInit(<<>>) /\ ManagerInit(TRUE, FALSE)
        \/ ShopifyInit(<<>>) /\ FootsiteInit(config) /\ ManagerInit(FALSE, TRUE)

-----------------------------------------------------------------------------
(* Polling runs: check() of either poller against storefronts that answer *)

shopify_state == <<target_sizes, seen_products, seen_variants, last_request_time,
                   consecutive_errors, backoff_until, store,
                   result, log, fetched, net_calls, polled>>

\* ShopifyStoreMonitor.check (shopify_monitor.py:122-217)
Check(srv) ==
    /\ manager.shopify_monitor
    /\ IF backing_off(now, backoff_until) THEN CheckBackingOff ELSE CheckFetch(srv)
    /\ UNCHANGED <<footsite_vars, manager_vars, lookup_vars, lifecycle_vars, fleet_vars, handler_vars>>

\* FootsiteMonitor.check (footsites.py:202-257)
FootCheck(responses) ==
    /\ manager.footsite_monitor
    /\ FootsiteCheck(responses)
    /\ UNCHANGED <<shopify_state, manager_vars, lookup_vars, lifecycle_vars, fleet_vars, handler_vars>>

\* the storefronts that answer every request with 200
PollServers ==
    {srv \in Servers : \A i \in DOMAIN srv.pages : srv.pages[i].status = 200}

\* the answers of the search API to the two keywords of one check()
FootSearches ==
    {<<first, second>> :
        first \in {Page(<<>>), Failure("http", 500)}
                  \cup {Page(<<FootProductF(stock)>>) :
                           stock \in {{}, {"10"}, {"9", "10"}, {"9", "10", "11"}}},
        second \in {Page(<<>>), Failure("error", 0), Page(<<FootProductG({"10.5"})>>),
                    Page(<<FootProductNoSku, FootProductG({})>>),
                    Page(<<FootProductF({"9", "10", "11"})>>)}}

MaxPolls == 3

PollNext ==
    \/ \E srv \in PollServers : Check(srv) /\ store'.success_count <= MaxPolls
    \/ \E responses \in FootSearches :
           FootCheck(responses) /\ footsite'.check_count <= MaxPolls

SpecPoll == OneFamilyInit /\ [][PollNext]_vars

-----------------------------------------------------------------------------
(* Malformed-record runs: check() of either poller on catalogs that hold a   *)
(* record the poller cannot process                                          *)

\* the record of `product` with "title": null
Untitled(product) == [product EXCEPT !.title = Null]

\* the record of `product` with the price "N/A" on every variant
Unpriced(product) ==
    [product EXCEPT !.variants = [i \in DOMAIN @ |-> [@[i] EXCEPT !.price = "N/A"]]]

\* the record of `data` with "name": null
Unnamed(data) == [data EXCEPT !.name = Null]

\* catalogs of P and Q with one of them malformed or none
MalformedCatalogs ==
    {<<p, q>> : p \in {ProductP({1, 2}), Untitled(ProductP({1, 2})),
                       Unpriced(ProductP({1, 2})), Untitled(ProductP({}))},
                q \in {ProductQ({4})}}
    \cup {<<ProductQ({4}), Untitled(ProductP({1, 2, 3}))>>}

\* searches that return F and G with one of them malformed or none
MalformedSearches ==
    {<<Page(<<FootProductF({"10"}), g>>), Page(<<>>)>> :
        g \in {FootProductG({"10.5"}), Unnamed(FootProductG({"10.5"})),
               Unnamed(FootProductG({}))}}
    \cup {<<Page(<<Unnamed(FootProductF({"9", "10"}))>>), Page(<<FootProductG({"10.5"})>>)>>}

MalformedNext ==
    \/ \E catalog \in MalformedCatalogs :
           Check(Server(<<Page(catalog)>>, FALSE)) /\ store'.success_count <= MaxPolls
    \/ \E responses \in MalformedSearches :
           FootCheck(responses) /\ footsite'.check_count <= MaxPolls

SpecMalformed ==
    ShopifyInit(<<>>) /\ FootsiteInit(<<>>) /\ ManagerInit(TRUE, TRUE)
    /\ [][MalformedNext]_vars

-----------------------------------------------------------------------------
(* Retail runs: check() of the retail poller, with and without target sizes, *)
(* on searches whose stock changes from poll to poll and which may hold a    *)
(* record without a name                                                     *)

RetailSearches ==
    {<<Page(<<FootProductF(stock)>>), second>> :
        stock \in {{}, {"10"}, {"9", "10"}, {"9", "10", "11"}},
        second \in {Page(<<>>), Page(<<FootProductG({"10.5"})>>),
                    Page(<<Unnamed(FootProductG({"10.5"}))>>)}}

RetailNext ==
    \E responses \in RetailSearches :
        FootCheck(responses) /\ footsite'.check_count <= MaxPolls

SpecRetail ==
    /\ \E config \in TargetConfigs :
           ShopifyInit(<<>>) /\ FootsiteInit(config) /\ ManagerInit(FALSE, TRUE)
    /\ [][RetailNext]_vars

-----------------------------------------------------------------------------
(* Backoff runs: check() against storefronts that fail, with time passing *)

\* time passes until the backoff expires
Elapse ==
    /\ now < backoff_until
    /\ now' = backoff_until
    /\ UNCHANGED <<shopify_state, footsite_vars, manager_vars, lookup_vars,
                   lifecycle_vars, fleet_vars, handler_vars>>

\* storefronts that fail on the first page or rate-limit on the second, and two
\* that answer
BackoffServers ==
    {Server(<<f>>, FALSE) :
        f \in {Failure("http", 429), Failure("http", 500), Failure("timeout", 0)}}
    \cup {Server(<<Page(<<ProductP({1, 2, 3})>>), Failure("http", 429)>>, FALSE)}
    \cup {Server(<<Page(c)>>, FALSE) : c \in {<<>>, <<ProductP({1})>>}}

MaxErrors == 6

MaxRateLimits == 2

BackoffNext ==
    \/ \E srv \in BackoffServers :
           /\ Check(srv)
           /\ consecutive_errors' <= MaxErrors
           /\ store'.error_count <= MaxRateLimits
           /\ store'.success_count <= 1
    \/ Elapse

SpecBackoff ==
    ShopifyInit(<<>>) /\ FootsiteInit(<<>>) /\ ManagerInit(TRUE, FALSE)
    /\ [][BackoffNext]_vars

\* a storefront that rate-limits, one that times out and one that answers
WindowServers ==
    {Server(<<f>>, FALSE) : f \in {Failure("http", 429), Failure("timeout", 0)}}
    \cup {Server(<<Page(<<ProductP({1})>>)>>, FALSE)}

\* the store's loop polls; the storefront answers once
WindowPoll ==
    \E srv \in WindowServers :
        /\ Check(srv)
        /\ store'.error_count <= MaxRateLimits
        /\ consecutive_errors' <= MaxErrors
        /\ store'.success_count <= 1

WindowNext ==
    \/ WindowPoll
    \/ Elapse

\* the loop of a running store goes on polling (shopify_monitor.py:499-516),
\* and time passes
SpecBackoffFair ==
    /\ ShopifyInit(<<>>) /\ FootsiteInit(<<>>) /\ ManagerInit(TRUE, FALSE)
    /\ [][WindowNext]_vars
    /\ WF_vars(WindowPoll) /\ WF_vars(Elapse)

-----------------------------------------------------------------------------
(* Outcome runs: check() against storefronts that end a poll in each of the  *)
(* ways a request can end, with time passing                                 *)

\* storefronts that fail on the first page in every way, two that fail on the
\* second, and one that answers
OutcomeServers ==
    {Server(<<f>>, FALSE) : f \in Failures}
    \cup {Server(<<Page(<<ProductP({1, 2, 3})>>), f>>, FALSE) :
             f \in {Failure("http", 403), Failure("error", 0)}}
    \cup {Server(<<Page(<<ProductP({1})>>)>>, FALSE)}

OutcomesNext ==
    \/ \E srv \in OutcomeServers :
           /\ Check(srv)
           /\ consecutive_errors' <= MaxErrors
           /\ store'.error_count <= MaxRateLimits
           /\ store'.success_count <= 1
    \/ Elapse

SpecOutcomes ==
    ShopifyInit(<<>>) /\ FootsiteInit(<<>>) /\ ManagerInit(TRUE, FALSE)
    /\ [][OutcomesNext]_vars

\* storefronts that fail in every way on the third page, after two pages with
\* products, and one that answers
PartialServers ==
    {Server(<<Page(<<ProductP({1, 2})>>), Page(<<ProductQ({4})>>), f>>, FALSE) :
             f \in Failures}
    \cup {Server(<<Page(<<ProductP({1})>>)>>, FALSE)}

PartialNext ==
    \/ \E srv \in PartialServers :
           /\ Check(srv)
           /\ consecutive_errors' <= MaxErrors
           /\ store'.error_count <= MaxRateLimits
           /\ store'.success_count <= 1
    \/ Elapse

SpecPartial ==
    ShopifyInit(<<>>) /\ FootsiteInit(<<>>) /\ ManagerInit(TRUE, FALSE)
    /\ [][PartialNext]_vars

-----------------------------------------------------------------------------
(* Pipeline runs: one iteration of a coordinator's monitoring loop, handing  *)
(* every detection to the Monitor Manager                                    *)

\* MultiStoreMonitor._monitor_store (shopify_monitor.py:499-516), one iteration
\* up to the sleep: check(), then _handle_product for every detection, whose
\* callback is MonitorManager._handle_shopify_product
MonitorStore(srv) ==
    LET events == [i \in DOMAIN result'.products |->
                      handle_shopify_product(
                          handle_product(store.name, result'.products[i]))]
    IN  /\ manager.shopify_monitor
        /\ IF backing_off(now, backoff_until) THEN CheckBackingOff ELSE CheckFetch(srv)
        /\ manager' = process_events(manager, events)
        /\ arrived' = arrived \o events
        /\ UNCHANGED <<footsite_vars, lookup_vars, lifecycle_vars, fleet_vars, handler_vars>>

\* MultiFootsiteMonitor._monitor_loop (footsites.py:420-436), one iteration up to
\* the sleep; the callback is MonitorManager._handle_footsite_product
MonitorLoop(responses) ==
    LET events == [i \in DOMAIN footsite_result'.products |->
                      handle_footsite_product(footsite.site_name,
                                              footsite_result'.products[i])]
    IN  /\ manager.footsite_monitor
        /\ FootsiteCheck(responses)
        /\ manager' = process_events(manager, events)
        /\ arrived' = arrived \o events
        /\ UNCHANGED <<shopify_state, lookup_vars, lifecycle_vars, fleet_vars, handler_vars>>

PipelineServers ==
    {Server(<<Page(c)>>, FALSE) :
        c \in {<<ProductP(a)>> : a \in {{}, {1}, {1, 2}, {3}}}
              \cup {<<ProductP({1}), ProductQ({4})>>, <<ProductQ({})>>}}

PipelineSearches ==
    {<<Page(<<FootProductF(stock)>>), Page(<<FootProductG(more)>>)>> :
        stock \in {{}, {"10"}, {"9", "10"}}, more \in {{}, {"10.5"}}}

MaxIterations == 3

PipelineNext ==
    \/ \E srv \in PipelineServers :
           MonitorStore(srv) /\ store'.success_count <= MaxIterations
    \/ \E responses \in PipelineSearches :
           MonitorLoop(responses) /\ footsite'.check_count <= MaxIterations

SpecPipeline ==
    /\ \/ ShopifyInit(<<>>) /\ FootsiteInit(<<>>) /\ ManagerInit(TRUE, FALSE)
       \/ ShopifyInit(<<>>) /\ FootsiteInit(<<>>) /\ ManagerInit(FALSE, TRUE)
    /\ [][PipelineNext]_vars

-----------------------------------------------------------------------------
(* Manager runs: the callbacks invoked directly, and the trigger policy set *)

Snapshot(title) ==
    [product_id |-> "P", title |-> title, price |-> "110.00",
     sizes_available |-> <<>>, variants |-> <<>>]

CuratedLow == Curated("Beater", <<"tee">>, <<>>, "low", 0)

\* the DetectedProducts handed to _handle_shopify_product
Detections ==
    {DetectedProduct(Snapshot("Tee"), "Kith", NoCurated, 0, FALSE),
     DetectedProduct(Snapshot("Tee"), "Kith", CuratedLow, 90, FALSE),
     DetectedProduct(Snapshot("Panda Dunk"), "Kith", NikeDunkLowPanda, 65, FALSE),
     DetectedProduct(Snapshot("Panda Dunk"), "Kith", NikeDunkLowPanda, 90, TRUE),
     DetectedProduct(Snapshot("Tee"), "Kith", GrailTee, 90, FALSE)}

\* the arguments (enabled, min_confidence, min_priority) of enable_auto_tasks
AutoTaskSettings ==
    {<<FALSE, 70, "low">>, <<TRUE, 70, "medium">>, <<TRUE, 70, "high">>,
     <<TRUE, 90, "low">>}

MaxArrivals == 4

ManagerNext ==
    \/ \E setting \in AutoTaskSettings :
           /\ EnableAutoTasks(setting[1], setting[2], setting[3])
           /\ UNCHANGED <<shopify_vars, footsite_vars, lookup_vars, lifecycle_vars, fleet_vars, handler_vars>>
    \/ \E detected \in Detections :
           /\ Len(arrived) < MaxArrivals
           /\ HandleShopifyProduct(detected)
           /\ UNCHANGED <<shopify_vars, footsite_vars, lookup_vars, lifecycle_vars, fleet_vars, handler_vars>>

SpecManager ==
    ShopifyInit(<<>>) /\ FootsiteInit(<<>>) /\ ManagerInit(TRUE, TRUE)
    /\ [][ManagerNext]_vars

-----------------------------------------------------------------------------
(* Event runs: detections handed to the Monitor Manager with callbacks       *)
(* registered, and the event log queried                                     *)

\* curated products at and above the profit threshold of is_high_priority
CuratedAtThreshold == Curated("Sleeper", <<"tee">>, <<>>, "medium", 100)

CuratedProfitable == Curated("Flip", <<"tee">>, <<>>, "medium", 120)

\* the DetectedProducts handed to _handle_shopify_product
PriorityDetections ==
    {DetectedProduct(Snapshot("Tee"), "Kith", NoCurated, 0, FALSE),
     DetectedProduct(Snapshot("Tee"), "Kith", CuratedAtThreshold, 90, FALSE),
     DetectedProduct(Snapshot("Tee"), "Kith", CuratedProfitable, 90, FALSE),
     DetectedProduct(Snapshot("Tee"), "Kith", CuratedLow, 90, FALSE)}

\* MultiStoreMonitor._handle_product (shopify_monitor.py:518-543) with the
\* manager's _handle_shopify_product as its callback
HandleProduct(product) ==
    HandleShopifyProduct(handle_product(store.name, product))

\* the limit argument of the queries
Limits == (-1)..(MaxEvents + 1)

MaxLogged == 3

\* the titles of the detections the coordinators hand over
EventTitles == {"Tee", "Panda Dunk AJ4 Retro", "Socks"}

EventsNext ==
    \/ SetEventCallback
           /\ UNCHANGED <<shopify_vars, footsite_vars, lookup_vars, lifecycle_vars, fleet_vars, handler_vars>>
    \/ SetHighPriorityCallback
           /\ UNCHANGED <<shopify_vars, footsite_vars, lookup_vars, lifecycle_vars, fleet_vars, handler_vars>>
    \/ \E detected \in PriorityDetections :
           /\ Len(arrived) < MaxLogged
           /\ HandleShopifyProduct(detected)
           /\ UNCHANGED <<shopify_vars, footsite_vars, lookup_vars, lifecycle_vars, fleet_vars, handler_vars>>
    \/ \E title \in EventTitles :
           /\ Len(arrived) < MaxLogged
           /\ HandleProduct(Snapshot(title))
           /\ UNCHANGED <<shopify_vars, footsite_vars, lookup_vars, lifecycle_vars, fleet_vars, handler_vars>>
    \/ \E title \in EventTitles :
           /\ Len(arrived) < MaxLogged
           /\ HandleFootsiteProduct(footsite.site_name, Snapshot(title))
           /\ UNCHANGED <<shopify_vars, footsite_vars, lookup_vars, lifecycle_vars, fleet_vars, handler_vars>>

SpecEvents ==
    ShopifyInit(<<>>) /\ FootsiteInit(<<>>) /\ ManagerInit(TRUE, TRUE)
    /\ [][EventsNext]_vars

-----------------------------------------------------------------------------
(* Producer runs: the store loops of both coordinators hand detections to    *)
(* the Monitor Manager while callbacks of earlier detections are pending     *)

\* the DetectedProducts the loops of the generic-catalog stores hand over
LoopDetections ==
    {DetectedProduct(Snapshot("Tee"), store_name, curated, 90, FALSE) :
        store_name \in {"Kith", "Undefeated"}, curated \in {CuratedProfitable}}
    \cup {DetectedProduct(Snapshot("Tee"), "Kith", NoCurated, 0, FALSE)}

MaxHandled == 3

ProducersNext ==
    \/ SetEventCallback
           /\ UNCHANGED <<shopify_vars, footsite_vars, lookup_vars, lifecycle_vars, fleet_vars, handler_vars>>
    \/ SetHighPriorityCallback
           /\ UNCHANGED <<shopify_vars, footsite_vars, lookup_vars, lifecycle_vars, fleet_vars, handler_vars>>
    \/ EnableAutoTasks(TRUE, 70, "medium")
           /\ UNCHANGED <<shopify_vars, footsite_vars, lookup_vars, lifecycle_vars, fleet_vars, handler_vars>>
    \/ \E detected \in LoopDetections :
           /\ Len(arrived) < MaxHandled
           /\ ShopifyDetected(detected)
           /\ UNCHANGED <<shopify_vars, footsite_vars, lookup_vars, lifecycle_vars, fleet_vars>>
    \/ /\ Len(arrived) < MaxHandled
       /\ FootsiteDetected(footsite.site_name, Snapshot("Panda Dunk AJ4 Retro"))
       /\ UNCHANGED <<shopify_vars, footsite_vars, lookup_vars, lifecycle_vars, fleet_vars>>
    \/ \E store_name \in AllStores :
           /\ CallbackReturns(store_name)
           /\ UNCHANGED <<shopify_vars, footsite_vars, lookup_vars, lifecycle_vars, fleet_vars>>

SpecProducers ==
    ShopifyInit(<<>>) /\ FootsiteInit(<<>>) /\ ManagerInit(TRUE, TRUE)
    /\ [][ProducersNext]_vars

QueriesNext ==
    \/ \E detected \in Detections :
           /\ Len(arrived) < MaxLogged
           /\ HandleShopifyProduct(detected)
           /\ UNCHANGED <<shopify_vars, footsite_vars, lookup_vars, lifecycle_vars, fleet_vars, handler_vars>>
    \/ \E limit \in Limits :
           GetRecentEvents(limit)
           /\ UNCHANGED <<shopify_vars, footsite_vars, lifecycle_vars, fleet_vars, handler_vars>>
    \/ \E limit \in Limits :
           GetHighPriorityEvents(limit)
           /\ UNCHANGED <<shopify_vars, footsite_vars, lifecycle_vars, fleet_vars, handler_vars>>

SpecQueries ==
    ShopifyInit(<<>>) /\ FootsiteInit(<<>>) /\ ManagerInit(TRUE, TRUE)
    /\ [][QueriesNext]_vars

-----------------------------------------------------------------------------
(* Alert runs: detections of every priority handed to the manager, the       *)
(* high-priority callback registered at some moment, and the high-priority   *)
(* query                                                                     *)

CuratedThin == Curated("Grail", <<"tee">>, <<>>, "high", 40)

\* the DetectedProducts handed to _handle_shopify_product
AlertDetections ==
    {DetectedProduct(Snapshot("Tee"), "Kith", curated, 90, FALSE) :
        curated \in {NoCurated, CuratedProfitable, CuratedThin, GrailTee}}

AlertsNext ==
    \/ SetHighPriorityCallback
           /\ UNCHANGED <<shopify_vars, footsite_vars, lookup_vars, lifecycle_vars, fleet_vars, handler_vars>>
    \/ \E detected \in AlertDetections :
           /\ Len(arrived) < MaxLogged
           /\ HandleShopifyProduct(detected)
           /\ UNCHANGED <<shopify_vars, footsite_vars, lookup_vars, lifecycle_vars, fleet_vars, handler_vars>>
    \/ \E limit \in Limits :
           GetHighPriorityEvents(limit)
           /\ UNCHANGED <<shopify_vars, footsite_vars, lifecycle_vars, fleet_vars, handler_vars>>

SpecAlerts ==
    ShopifyInit(<<>>) /\ FootsiteInit(<<>>) /\ ManagerInit(TRUE, TRUE)
    /\ [][AlertsNext]_vars

-----------------------------------------------------------------------------
(* Matching runs: titles matched against the curated products, directly and  *)
(* by the two detection handlers                                             *)

\* the titles of the detections handed over in matching runs
HandledTitles == {"Tee", "Socks", "Panda Dunk GS", "Panda Dunk AJ4 Retro"}

MaxMatchCalls == 2

MatchNext ==
    \/ \E i \in DOMAIN product_db, title \in Titles :
           /\ Cardinality(matched) + Len(arrived) < MaxMatchCalls
           /\ MatchesTitle(i, title)
           /\ UNCHANGED <<shopify_vars, footsite_vars, lifecycle_vars, fleet_vars, handler_vars>>
    \/ \E title \in Titles :
           /\ Cardinality(matched) + Len(arrived) < MaxMatchCalls
           /\ MatchProductTitle(title)
           /\ UNCHANGED <<shopify_vars, footsite_vars, lifecycle_vars, fleet_vars, handler_vars>>
    \/ \E title \in HandledTitles :
           /\ Cardinality(matched) + Len(arrived) < MaxMatchCalls
           /\ HandleProduct(Snapshot(title))
           /\ UNCHANGED <<shopify_vars, footsite_vars, lookup_vars, lifecycle_vars, fleet_vars, handler_vars>>
    \/ \E title \in HandledTitles :
           /\ Cardinality(matched) + Len(arrived) < MaxMatchCalls
           /\ HandleFootsiteProduct(footsite.site_name, Snapshot(title))
           /\ UNCHANGED <<shopify_vars, footsite_vars, lookup_vars, lifecycle_vars, fleet_vars, handler_vars>>

SpecMatch ==
    ShopifyInit(<<>>) /\ FootsiteInit(<<>>) /\ ManagerInit(TRUE, TRUE)
    /\ [][MatchNext]_vars

-----------------------------------------------------------------------------
(* Coordinator runs: start() and stop() called on a coordinator in any       *)
(* interleaving with each other and with the steps of its store loops        *)

MaxLoops == 3

MaxCoordinatorCalls == 1

\* an id no call in progress has
FreeId == CHOOSE id \in 1..(Len(calls.active) + 1) :
              \A i \in DOMAIN calls.active : calls.active[i].id # id

pollers_and_manager == <<shopify_vars, footsite_vars, manager_vars, lookup_vars,
                         fleet_vars, handler_vars>>

CoordinatorNext ==
    \/ \E c \in Coordinators :
           /\ configured(c)
           /\ coordinators[c].running \/ Len(loops) + Len(coordinators[c].stores) <= MaxLoops
           /\ start(CallOf(FreeId, "start", c, 0))
           /\ UNCHANGED pollers_and_manager
    \/ \E c \in Coordinators :
           /\ configured(c)
           /\ Len(calls.active) < MaxCoordinatorCalls
           /\ stop(CallOf(FreeId, "stop", c, 0))
           /\ UNCHANGED pollers_and_manager
    \/ \E k \in DOMAIN calls.active :
           StopGathered(calls.active[k]) /\ UNCHANGED pollers_and_manager
    \/ \E k \in DOMAIN calls.active :
           StopSessionClosed(calls.active[k]) /\ UNCHANGED pollers_and_manager
    \/ \E t \in DOMAIN loops : LoopResume(t) /\ UNCHANGED pollers_and_manager
    \/ \E t \in DOMAIN loops, outcome \in CheckOutcomes :
           LoopCheckReturns(t, outcome) /\ UNCHANGED pollers_and_manager
    \/ \E t \in DOMAIN loops, raised \in BOOLEAN :
           LoopHandlerReturns(t, raised) /\ UNCHANGED pollers_and_manager
    \/ \E t \in DOMAIN loops : LoopCancelled(t) /\ UNCHANGED pollers_and_manager

SpecCoordinator ==
    /\ ShopifyInit(<<>>) /\ FootsiteInit(<<>>)
    /\ ManagerInit(TRUE, FALSE) \/ ManagerInit(FALSE, TRUE)
    /\ [][CoordinatorNext]_vars

-----------------------------------------------------------------------------
(* A Shopify coordinator to which stores are added and whose proxy pool is   *)
(* set at any time, before it is started, while it runs and after it was     *)
(* stopped                                                                   *)

\* the polls of stores that have nothing to report
QuietOutcomes == {outcome \in CheckOutcomes : outcome.detections = 0}

MaxAdded == 3

MaxPoolSets == 2

StoreNames == {"Kith", "KITH", "Kith NYC"}

Pools == {<<>>, <<"proxy-a", "proxy-b">>, <<"proxy-c", "proxy-d", "proxy-e">>}

ProxiesNext ==
    \/ \E name \in StoreNames :
           /\ Len(fleet.added) < MaxAdded
           /\ AddShopifyStore(name)
    \/ \E proxies \in Pools :
           /\ fleet.epoch < MaxPoolSets
           /\ SetProxies(proxies)

\* a manager without coordinators, or with a Shopify coordinator and its stores
SpecProxies ==
    /\ ShopifyInit(<<>>) /\ FootsiteInit(<<>>)
    /\ ManagerInit(FALSE, FALSE) \/ ManagerInit(TRUE, FALSE)
    /\ [][ProxiesNext]_vars

FleetNext ==
    \/ \E name \in StoreNames :
           /\ Len(fleet.added) < MaxAdded
           /\ AddShopifyStore(name)
    \/ /\ configured("shopify")
       /\ coordinators["shopify"].running
              \/ Len(loops) + Len(coordinators["shopify"].stores) <= MaxLoops
       /\ start(CallOf(FreeId, "start", "shopify", 0))
       /\ UNCHANGED pollers_and_manager
    \/ /\ configured("shopify")
       /\ Len(calls.active) < MaxCoordinatorCalls
       /\ stop(CallOf(FreeId, "stop", "shopify", 0))
       /\ UNCHANGED pollers_and_manager
    \/ \E k \in DOMAIN calls.active :
           StopGathered(calls.active[k]) /\ UNCHANGED pollers_and_manager
    \/ \E k \in DOMAIN calls.active :
           StopSessionClosed(calls.active[k]) /\ UNCHANGED pollers_and_manager
    \/ \E t \in DOMAIN loops : LoopResume(t) /\ UNCHANGED pollers_and_manager
    \/ \E t \in DOMAIN loops, outcome \in QuietOutcomes :
           LoopCheckReturns(t, outcome) /\ UNCHANGED pollers_and_manager
    \/ \E t \in DOMAIN loops : LoopCancelled(t) /\ UNCHANGED pollers_and_manager

\* a manager without coordinators
SpecFleet ==
    /\ ShopifyInit(<<>>) /\ FootsiteInit(<<>>)
    /\ ManagerInit(FALSE, FALSE)
    /\ [][FleetNext]_vars

-----------------------------------------------------------------------------
(* A product database that is filled, exported and loaded back *)

MaxProducts == 2

\* a product as load_from_json creates it, with brand, search string and prices
ImportedTee ==
    [Curated("Tee-Twin", <<"tee">>, <<"-kids">>, "low", 10)
        EXCEPT !.brand = "nike", !.optimized_search = "tee -kids",
               !.retail_price = 40, !.current_price = 50, !.profit_ratio = 25,
               !.sku = "CU1110", !.source = "imported"]

ExchangeProducts == {GrailTee, RetiredTee, JordanFour, ImportedTee}

ExchangeNext ==
    \/ \E product \in ExchangeProducts :
           /\ Len(exchange.products) < MaxProducts
           /\ AddProduct(product)
    \/ ExportToJson
    \/ LoadFromJson

SpecExchange ==
    /\ ShopifyInit(<<>>) /\ FootsiteInit(<<>>)
    /\ ManagerInit(FALSE, FALSE)
    /\ [][ExchangeNext]_vars

MaxTargets == 4

\* targets of three brands, two of them spelled alike but for the case, and of
\* two priorities; "Tee Twin" and "Tee-Twin" have the same slug
RegistryProducts ==
    {GrailTee, [RetiredTee EXCEPT !.brand = "KITH"], [TeeTwin EXCEPT !.brand = "Kith"],
     [Curated("Tee-Twin", <<"tee">>, <<>>, "low", 10) EXCEPT !.brand = "Kith"]}

RegistryNext ==
    \E product \in RegistryProducts :
        /\ Len(exchange.products) < MaxTargets
        /\ AddProduct(product)

SpecRegistry ==
    /\ ShopifyInit(<<>>) /\ FootsiteInit(<<>>)
    /\ ManagerInit(FALSE, FALSE)
    /\ [][RegistryNext]_vars

-----------------------------------------------------------------------------
(* MonitorManager.start() and stop() (manager.py:160-202).  asyncio.gather   *)
(* wraps each coordinator coroutine in a task, so the coordinator calls run  *)
(* after the manager call has suspended, in any order with everything else.  *)

\* the coordinators the manager has, in the order start() and stop() take them
\* (manager.py:172-176, 193-197)
configured_coordinators ==
    SelectSeq(<<"shopify", "footsite">>, configured)

\* the ids of the calls in progress
ActiveIds == {calls.active[i].id : i \in DOMAIN calls.active}

\* the k-th id that no call in progress has
RECURSIVE free_id(_, _)
free_id(k, from) ==
    IF from \in ActiveIds THEN free_id(k, from + 1)
    ELSE IF k = 1 THEN from
    ELSE free_id(k - 1, from + 1)

\* tasks.append(self.shopify_monitor.start()) ...: the coordinator calls that
\* the gather of `call` schedules
gathered_by(call) ==
    [k \in DOMAIN configured_coordinators |->
        CallOf(free_id(k + 1, 1), call.op, configured_coordinators[k], call.id)]

\* faulty variant of gather_done: the manager does not wait for its coordinators
no_gather(awaiting) == TRUE

\* await asyncio.gather(*tasks) is done (manager.py:178-179, 199-200): every
\* coordinator call of `awaiting` has returned
gather_done(awaiting) ==
    \A i \in DOMAIN calls.active :
        calls.active[i].id \in awaiting => calls.active[i].pc = "returned"

\* MonitorManager.start (manager.py:160-179) or stop (184-200) up to its
\* gather: the call returns at once when the manager is already in the state
\* asked for or has no coordinator.  product_db.load_builtin() (manager.py:169)
\* adds the built-in products once more to the database `exchange`, under new
\* ids (products.py:125-130); the matching of the handlers above is computed
\* on the fixed list product_db
ManagerCall(op) ==
    LET call == CallOf(free_id(1, 1), op, "manager", 0)
        scheduled == gathered_by(call)
    IN  IF manager.running = (op = "start")
        THEN /\ calls' = [calls EXCEPT !.returned = [call EXCEPT !.pc = "returned"]]
             /\ UNCHANGED <<manager, exchange>>
        ELSE /\ manager' = [manager EXCEPT !.running = (op = "start")]
             /\ exchange' = IF op = "start" THEN load_builtin(exchange) ELSE exchange
             /\ calls' =
                    IF scheduled = <<>>
                    THEN [calls EXCEPT !.returned = [call EXCEPT !.pc = "returned"]]
                    ELSE [active |->
                              calls.active
                              \o <<[call EXCEPT
                                       !.pc = "gather",
                                       !.awaiting = {scheduled[k].id : k \in DOMAIN scheduled}]>>
                              \o scheduled,
                          returned |-> NoCall]

\* a coordinator call scheduled by a gather runs (manager.py:178-179, 199-200)
RunScheduled(call) ==
    /\ call.pc = "scheduled"
    /\ IF call.op = "start" THEN start(call) ELSE stop(call)

\* the manager's call resumes after its gather and returns
\* (manager.py:178-182, 199-202)
ManagerGathered(call) ==
    /\ call.coordinator = "manager"
    /\ call.pc = "gather"
    /\ gather_done(call.awaiting)
    /\ calls' = [active |-> SelectSeq(calls.active,
                                LAMBDA other : other.id # call.id /\ other.id \notin call.awaiting),
                 returned |-> [call EXCEPT !.pc = "returned"]]

MaxManagerCalls == 2

\* the manager's calls in progress
ManagerCalls == SelectSeq(calls.active, LAMBDA other : other.coordinator = "manager")

\* the store loops that the start() calls scheduled and not yet run may create
Scheduled ==
    LET starting == SelectSeq(calls.active,
                        LAMBDA other : other.op = "start" /\ other.pc = "scheduled")
        RECURSIVE sum(_)
        sum(k) == IF k = 0 THEN 0
                  ELSE sum(k - 1) + Len(coordinators[starting[k].coordinator].stores)
    IN  sum(Len(starting))

\* the store loops one start() of a manager with every coordinator creates
PerStart == Len(StoresOf("shopify")) + Len(StoresOf("footsite"))

pollers_and_lookups == <<shopify_vars, footsite_vars, arrived, lookup_vars, fleet, handler_vars>>

\* the database has room for the built-in products once more
RoomForBuiltin == Len(exchange.products) + Len(builtin_products) <= MaxTargets

LifecycleNext ==
    \/ /\ Len(ManagerCalls) < MaxManagerCalls
       /\ manager.running \/ Len(loops) + Scheduled + PerStart <= MaxLoops
       /\ manager.running \/ RoomForBuiltin
       /\ ManagerCall("start")
       /\ UNCHANGED <<pollers_and_lookups, coordinators, loops, sessions>>
    \/ /\ Len(ManagerCalls) < MaxManagerCalls
       /\ ManagerCall("stop")
       /\ UNCHANGED <<pollers_and_lookups, coordinators, loops, sessions>>
    \/ \E k \in DOMAIN calls.active :
           RunScheduled(calls.active[k]) /\ UNCHANGED pollers_and_manager
    \/ \E k \in DOMAIN calls.active :
           /\ ManagerGathered(calls.active[k])
           /\ UNCHANGED <<pollers_and_manager, coordinators, loops, sessions>>
    \/ \E k \in DOMAIN calls.active :
           StopGathered(calls.active[k]) /\ UNCHANGED pollers_and_manager
    \/ \E k \in DOMAIN calls.active :
           StopSessionClosed(calls.active[k]) /\ UNCHANGED pollers_and_manager
    \/ \E t \in DOMAIN loops : LoopResume(t) /\ UNCHANGED pollers_and_manager
    \/ \E t \in DOMAIN loops, outcome \in QuietOutcomes :
           LoopCheckReturns(t, outcome) /\ UNCHANGED pollers_and_manager
    \/ \E t \in DOMAIN loops : LoopCancelled(t) /\ UNCHANGED pollers_and_manager

\* a manager with any of its coordinators set up, not started, whose stores
\* have nothing to report
SpecLifecycle ==
    /\ ShopifyInit(<<>>) /\ FootsiteInit(<<>>)
    /\ \E shopify, footsites \in BOOLEAN : ManagerInit(shopify, footsites)
    /\ [][LifecycleNext]_vars

\* the coordinator object the manager held for family c before a setup call
\* replaced it
Former(c) == IF c = "shopify" THEN "replaced shopify" ELSE "replaced footsite"

\* a store loop of the coordinator the manager holds for family c is alive
Alive(c) == \E t \in DOMAIN loops : loops[t].coordinator = c /\ ~Done(loops[t])

\* self.shopify_monitor = ... / self.footsite_monitor = ... (manager.py:89-92,
\* 112-117): the manager holds a new coordinator, not running, with no task and
\* with stores whose sessions are not open; the one it held, and its loops,
\* are as they were
replace(c) ==
    LET fresh == [running |-> FALSE, tasks |-> <<>>, stores |-> StoresOf(c),
                  overlapped |-> FALSE]
    IN  /\ coordinators' = IF Alive(c)
                           THEN Put([coordinators EXCEPT ![c] = fresh],
                                    Former(c), coordinators[c])
                           ELSE [coordinators EXCEPT ![c] = fresh]
        /\ loops' = [t \in DOMAIN loops |->
                        IF Alive(c) /\ loops[t].coordinator = c
                        THEN [loops[t] EXCEPT !.coordinator = Former(c)]
                        ELSE loops[t]]
        /\ sessions' = [store_name \in AllStores |->
                           IF \E i \in DOMAIN StoresOf(c) : StoresOf(c)[i] = store_name
                           THEN "none" ELSE sessions[store_name]]
        /\ NoneReturned

\* MonitorManager.setup_shopify(use_defaults=True) (manager.py:80-99) with
\* create_default_monitor (shopify_monitor.py:586-600), which loads the
\* built-in products; called while no start() or stop() is in progress
SetupShopify ==
    /\ calls.active = <<>>
    /\ Alive("shopify") => Former("shopify") \notin DOMAIN coordinators
    /\ replace("shopify")
    /\ manager' = [manager EXCEPT !.shopify_monitor = TRUE]
    /\ exchange' = load_builtin(exchange)
    /\ fleet' = [proxies |-> <<>>, proxy_index |-> 0,
                 stores |-> [i \in DOMAIN StoresOf("shopify") |->
                                Registered(StoresOf("shopify")[i], "")],
                 added |-> <<>>, epoch |-> 0]
    /\ UNCHANGED <<shopify_vars, footsite_vars, arrived, lookup_vars, handler_vars>>

\* MonitorManager.setup_footsites (manager.py:101-123); called while no
\* start() or stop() is in progress
SetupFootsites ==
    /\ calls.active = <<>>
    /\ Alive("footsite") => Former("footsite") \notin DOMAIN coordinators
    /\ replace("footsite")
    /\ manager' = [manager EXCEPT !.footsite_monitor = TRUE]
    /\ UNCHANGED <<shopify_vars, footsite_vars, arrived, lookup_vars, fleet_vars,
                   handler_vars>>

SetupNext ==
    \/ SetupShopify /\ RoomForBuiltin
    \/ SetupFootsites
    \/ LifecycleNext

\* a manager with no coordinator, set up and started by the calls made on it
SpecSetup ==
    /\ ShopifyInit(<<>>) /\ FootsiteInit(<<>>)
    /\ ManagerInit(FALSE, FALSE)
    /\ [][SetupNext]_vars

-----------------------------------------------------------------------------
(* Properties of the generic-catalog poller's classification *)

\* record i is the only one of the catalog with its product id
Once(catalog, i) == \A j \in DOMAIN catalog : catalog[j].id = catalog[i].id => j = i

AvailableIds(product) ==
    {product.variants[k].id : k \in {n \in DOMAIN product.variants :
                                        product.variants[n].available}}

\* the classifications a poll logged for product `pid`
ReportsOf(lg, pid) == SelectSeq(lg, LAMBDA entry : entry.product_id = pid)

\* the snapshots a poll returned for product `pid`
SnapshotsOf(products, pid) == SelectSeq(products, LAMBDA info : info.product_id = pid)

\* the sizes of the available variants of `product`, in catalog order
AvailableSizes(product) == SizesOf(Available(product))

\* some available size of `product` is in the poller's target list
HasTargetSize(product) ==
    \E k \in DOMAIN AvailableSizes(product) : InSeq(AvailableSizes(product)[k], target_sizes)

\* C1: with no size filter, a successful poll that observes a product whose
\* recorded available-variant set is a non-empty proper subset of the observed
\* one reports it once, as a restock whose newly available set is the
\* difference, and records the observed set; a poll that observes exactly the
\* recorded set reports nothing and leaves both index entries as they were.
C1_RestockClassification ==
    [][(result'.success /\ target_sizes = <<>>) =>
        \A i \in DOMAIN fetched' :
            LET p == fetched'[i]
                cur == AvailableIds(p)
            IN  (Once(fetched', i) /\ p.id \in DOMAIN seen_variants
                 /\ seen_variants[p.id] # {}) =>
                    /\ (seen_variants[p.id] \subseteq cur /\ seen_variants[p.id] # cur) =>
                           /\ ReportsOf(log', p.id) =
                                  <<[kind |-> "restock", product_id |-> p.id,
                                     old_variants |-> seen_variants[p.id],
                                     new_variants |-> cur \ seen_variants[p.id]]>>
                           /\ Len(SnapshotsOf(result'.products, p.id)) = 1
                           /\ seen_variants'[p.id] = cur
                    /\ seen_variants[p.id] = cur =>
                           /\ ReportsOf(log', p.id) = <<>>
                           /\ SnapshotsOf(result'.products, p.id) = <<>>
                           /\ seen_variants'[p.id] = seen_variants[p.id]
                           /\ seen_products'[p.id] = seen_products[p.id]
      ]_vars

\* C1 witness: product P, recorded with variants {1, 2}, was observed with
\* {1, 2, 3} and reported as a restock of {3}
C1_RestockReported ==
    /\ target_sizes = <<>>
    /\ result.success
    /\ [kind |-> "restock", product_id |-> "P",
        old_variants |-> {1, 2}, new_variants |-> {3}] \in {log[i] : i \in DOMAIN log}
    /\ "P" \in DOMAIN seen_variants
    /\ seen_variants["P"] = {1, 2, 3}

\* C2 as stated: a successful poll that observes a previously reported product
\* with no available variant reports nothing and empties its variant-set
\* entry; a poll that observes a product whose entry is empty with any
\* available variant reports it.
C2_AnyVariantReported ==
    [][result'.success =>
        \A i \in DOMAIN fetched' :
            LET p == fetched'[i]
                cur == AvailableIds(p)
            IN  (Once(fetched', i) /\ p.id \in DOMAIN seen_products) =>
                    /\ cur = {} =>
                           /\ ReportsOf(log', p.id) = <<>>
                           /\ SnapshotsOf(result'.products, p.id) = <<>>
                           /\ seen_variants'[p.id] = {}
                    /\ (cur # {} /\ seen_variants[p.id] = {}) =>
                           /\ Len(ReportsOf(log', p.id)) = 1
                           /\ Len(SnapshotsOf(result'.products, p.id)) = 1
      ]_vars

\* C2 amended: as C2, but the product whose entry is empty is reported by the
\* next poll in which an available variant passes the size filter: any
\* available variant when no filter is configured, one whose size is in the
\* target list otherwise; the reported entry lists every current variant as
\* newly available.
C2_VariantPassingFilterReported ==
    [][result'.success =>
        \A i \in DOMAIN fetched' :
            LET p == fetched'[i]
                cur == AvailableIds(p)
            IN  (Once(fetched', i) /\ p.id \in DOMAIN seen_products) =>
                    /\ cur = {} =>
                           /\ ReportsOf(log', p.id) = <<>>
                           /\ SnapshotsOf(result'.products, p.id) = <<>>
                           /\ seen_variants'[p.id] = {}
                    /\ (cur # {} /\ seen_variants[p.id] = {}
                        /\ (target_sizes = <<>> \/ HasTargetSize(p))) =>
                           /\ ReportsOf(log', p.id) =
                                  <<[kind |-> "restock", product_id |-> p.id,
                                     old_variants |-> {}, new_variants |-> cur]>>
                           /\ Len(SnapshotsOf(result'.products, p.id)) = 1
                           /\ seen_variants'[p.id] = cur
      ]_vars

\* C2 witness: under a size filter, product P, whose entry had been emptied, is
\* reported again with every available variant newly available
C2_ReportedAfterSellOut ==
    /\ target_sizes # <<>>
    /\ result.success
    /\ \E i \in DOMAIN log :
          /\ log[i].product_id = "P"
          /\ log[i].kind = "restock"
          /\ log[i].old_variants = {}
          /\ log[i].new_variants = seen_variants["P"]

\* C5 as stated: a never-reported product observed with no available variant
\* produces no detection and no index entry; observed with an available size
\* it produces exactly one new_product detection whose size list is its
\* available sizes; a never-reported product is never classified restock.
C5_FirstSightingAnySize ==
    [][result'.success =>
        \A i \in DOMAIN fetched' :
            LET p == fetched'[i]
                reports == ReportsOf(log', p.id)
                snapshots == SnapshotsOf(result'.products, p.id)
            IN  (Once(fetched', i) /\ p.id \notin DOMAIN seen_products) =>
                    /\ AvailableIds(p) = {} =>
                           /\ reports = <<>>
                           /\ snapshots = <<>>
                           /\ p.id \notin DOMAIN seen_products'
                           /\ p.id \notin DOMAIN seen_variants'
                    /\ AvailableSizes(p) # <<>> =>
                           /\ Len(reports) = 1
                           /\ reports[1].kind = "new_product"
                           /\ Len(snapshots) = 1
                           /\ snapshots[1].sizes_available = AvailableSizes(p)
                    /\ \A k \in DOMAIN reports : reports[k].kind # "restock"
      ]_vars

\* C5 amended: as C5, but the first later poll that reports the product is the
\* first in which one of its available sizes passes the size filter, and the
\* size list of the one new_product detection is the available sizes that pass
\* the filter (all of them when no filter is configured).
C5_FirstSightingPassingFilter ==
    [][result'.success =>
        \A i \in DOMAIN fetched' :
            LET p == fetched'[i]
                reports == ReportsOf(log', p.id)
                snapshots == SnapshotsOf(result'.products, p.id)
                passing == SelectSeq(AvailableSizes(p), LAMBDA size :
                               target_sizes = <<>> \/ InSeq(size, target_sizes))
            IN  (Once(fetched', i) /\ p.id \notin DOMAIN seen_products) =>
                    /\ AvailableIds(p) = {} =>
                           /\ reports = <<>>
                           /\ snapshots = <<>>
                           /\ p.id \notin DOMAIN seen_products'
                           /\ p.id \notin DOMAIN seen_variants'
                    /\ passing # <<>> =>
                           /\ Len(reports) = 1
                           /\ reports[1].kind = "new_product"
                           /\ Len(snapshots) = 1
                           /\ snapshots[1].sizes_available = passing
                           /\ seen_variants'[p.id] = AvailableIds(p)
                    /\ (AvailableSizes(p) # <<>> /\ passing = <<>>) =>
                           /\ reports = <<>>
                           /\ p.id \notin DOMAIN seen_products'
                    /\ \A k \in DOMAIN reports : reports[k].kind # "restock"
      ]_vars

\* C5 witness: product P, absent from the index after a first poll, is reported
\* by the second poll as a new product with size 10
C5_NewProductOnSecondPoll ==
    /\ store.success_count = 2
    /\ store.products_found = 1
    /\ log = <<[kind |-> "new_product", product_id |-> "P",
                old_variants |-> {}, new_variants |-> {2}]>>
    /\ Len(result.products) = 1
    /\ result.products[1].sizes_available = <<Chars("10")>>

OnceSku(catalog, i) == \A j \in DOMAIN catalog : catalog[j].sku = catalog[i].sku => j = i

\* C3: for either poller, when a successful poll fetches the very catalog the
\* previous successful poll fetched, and no product id occurs twice in it, the
\* poll returns no detection and leaves the index maps and the products-found
\* counter as the previous poll left them.
C3_Idempotence ==
    [][/\ (/\ result.success /\ result'.success
           /\ store'.success_count = store.success_count + 1
           /\ fetched' = fetched
           /\ \A i \in DOMAIN fetched : Once(fetched, i)) =>
              /\ result'.products = <<>>
              /\ seen_products' = seen_products
              /\ seen_variants' = seen_variants
              /\ store'.products_found = store.products_found
       /\ (/\ footsite_result.success /\ footsite_result'.success
           /\ footsite'.check_count = footsite.check_count + 1
           /\ footsite_fetched' = footsite_fetched
           /\ \A i \in DOMAIN footsite_fetched : OnceSku(footsite_fetched, i)) =>
              /\ footsite_result'.products = <<>>
              /\ footsite'.seen_products = footsite.seen_products
              /\ footsite'.seen_skus = footsite.seen_skus
              /\ footsite'.products_found = footsite.products_found
      ]_vars

\* C3 witness: the second of two polls fetched product P with variants 1 and 2
\* available, found it recorded with exactly these, and reported nothing
C3_SecondPollSilent ==
    /\ store.success_count = 2
    /\ fetched = <<ProductP({1, 2})>>
    /\ result.success
    /\ result.products = <<>>
    /\ DOMAIN seen_variants = {"P"}
    /\ seen_variants["P"] = {1, 2}
    /\ store.products_found = 1

-----------------------------------------------------------------------------
(* Properties of the generic-catalog poller's backoff *)

\* a request was issued in the step
Requested == last_request_time' # last_request_time

\* C7: when a poll is answered 429 while the consecutive-error counter is n,
\* backoff-until becomes the time of the answer plus min(300, 10 * 2^n)
\* seconds, and the consecutive-error counter and the store's error counter
\* each grow by exactly one.
C7_BackoffFormula ==
    [][(Requested /\ result'.rate_limited) =>
        LET n == consecutive_errors
            delay == IF 10 * 2^n < 300 THEN 10 * 2^n ELSE 300
        IN  /\ backoff_until' = now' + delay * TicksPerSecond
            /\ consecutive_errors' = n + 1
            /\ store'.error_count = store.error_count + 1
      ]_vars

\* C7 witness: a 429 received with five consecutive errors counted set the
\* capped delay of 300 seconds
C7_CappedBackoff ==
    /\ result.rate_limited
    /\ net_calls > 0
    /\ consecutive_errors = 6
    /\ backoff_until = now + 300 * TicksPerSecond

\* C8: a poll made while now < backoff-until returns a rate-limited failure,
\* issues no request, and leaves the consecutive-error counter, backoff-until,
\* the store's counters and both index maps as they were.  (The only other
\* step taken while backing off is the passage of time, which moves the clock.)
C8_FailFast ==
    [][(now < backoff_until /\ now' = now) =>
        /\ ~result'.success
        /\ result'.rate_limited
        /\ result'.products = <<>>
        /\ net_calls' = 0
        /\ last_request_time' = last_request_time
        /\ consecutive_errors' = consecutive_errors
        /\ backoff_until' = backoff_until
        /\ store' = store
        /\ seen_products' = seen_products
        /\ seen_variants' = seen_variants
      ]_vars

\* C8 witness: a poll failed fast while backing off, with a product recorded in
\* the index and errors counted
C8_FailedFast ==
    /\ now < backoff_until
    /\ result.error = "Backing off"
    /\ net_calls = 0
    /\ seen_products # <<>>
    /\ consecutive_errors > 0

-----------------------------------------------------------------------------
(* Properties of the event pipeline *)

\* C4 as stated: every detection of a monitoring iteration reaches the event
\* log with the kind the poller classified it as: restock for a restock,
\* new_product only for a never-reported product.
C4_EventKindPreserved ==
    [][(Requested /\ result'.success /\ Len(arrived') = Len(arrived) + Len(log')) =>
        \A i \in DOMAIN log' :
            /\ arrived'[Len(arrived) + i].product.product_id = log'[i].product_id
            /\ arrived'[Len(arrived) + i].event_type = log'[i].kind
      ]_vars

\* the tier of a priority
Tier(level) == CASE level = "low" -> 0 [] level = "medium" -> 1 [] level = "high" -> 2

\* C9: processing an event raises tasks_created, by one, exactly when
\* auto-trigger is enabled, the event has a matched target, its confidence is
\* at least the minimum confidence and the tier of its priority is at least
\* the tier of the minimum priority; otherwise tasks_created keeps its value.
C9_TriggerPolicy ==
    [][Len(arrived') = Len(arrived) + 1 =>
        LET event == arrived'[Len(arrived')]
            triggers ==
                /\ manager.auto_task_enabled
                /\ event.matched_product # NoCurated
                /\ event.match_confidence >= manager.auto_task_min_confidence
                /\ Tier(event.matched_product.priority)
                       >= Tier(manager.auto_task_min_priority)
        IN  manager'.tasks_created = manager.tasks_created + (IF triggers THEN 1 ELSE 0)
      ]_vars

\* C9 witness: the one event processed, of confidence 0.9 and priority high
\* under minimum confidence 0.7 and minimum priority medium, created a task
C9_HighOverMediumTriggered ==
    /\ Len(arrived) = 1
    /\ arrived[1].match_confidence = 90
    /\ arrived[1].matched_product.priority = "high"
    /\ manager.auto_task_enabled
    /\ manager.auto_task_min_confidence = 70
    /\ manager.auto_task_min_priority = "medium"
    /\ manager.tasks_created = 1

\* C10: the event log never holds more than its capacity, and it is always the
\* most recent `capacity` of the events processed (all of them while fewer
\* have been processed), in arrival order.
C10_EventLogBound ==
    LET n == Len(arrived)
        capacity == manager.max_events
    IN  /\ Len(manager.events) <= capacity
        /\ manager.events = IF n <= capacity THEN arrived
                            ELSE [i \in 1..capacity |-> arrived[n - capacity + i]]

\* C10 witness: two events more than the capacity were processed, the oldest
\* two differ from the ones kept, and the log is full
C10_TwoEvicted ==
    /\ Len(arrived) = manager.max_events + 2
    /\ Len(manager.events) = manager.max_events
    /\ arrived[1] # arrived[3]
    /\ arrived[2] # arrived[Len(arrived)]
    /\ manager.events[1] = arrived[3]

-----------------------------------------------------------------------------
(* Properties of the event log queries and of the callbacks *)

-----------------------------------------------------------------------------
(* Properties of title matching *)

\* `keyword` without its leading dashes
RECURSIVE Undashed(_)
Undashed(keyword) ==
    IF keyword # <<>> /\ Head(keyword) = "-" THEN Undashed(Tail(keyword)) ELSE keyword

\* `keyword`, a character sequence, occurs in `title` when case is ignored
OccursIn(keyword, title) == contains(lower(Chars(title)), lower(keyword))

HasNegativeKeyword(target, title) ==
    \E i \in DOMAIN target.negative_keywords :
        OccursIn(Undashed(Chars(target.negative_keywords[i])), title)

MatchedCount(target, title) ==
    Cardinality({i \in DOMAIN target.positive_keywords :
                    OccursIn(Chars(target.positive_keywords[i]), title)})

NoMatch == [matches |-> FALSE, confidence |-> 0]

\* the SKU, or the style code, of the target is set and occurs in the title
CodeOccurs(code, title) == code # "" /\ OccursIn(Chars(code), title)

\* the position of a curated product in the registry
RegistryIndex(product) == CHOOSE k \in DOMAIN product_db : product_db[k] = product

\* what occurs in each title of each product of the registry, computed once
Occurrences ==
    [k \in DOMAIN product_db |->
        [t \in Titles |->
            [negative |-> HasNegativeKeyword(product_db[k], t),
             count |-> MatchedCount(product_db[k], t),
             sku |-> CodeOccurs(product_db[k].sku, t),
             style_code |-> CodeOccurs(product_db[k].style_code, t)]]]

OccurrencesOf(r) == Occurrences[RegistryIndex(r.target)][r.title]

\* C13: matches_title returns no match, with confidence zero, for a title in
\* which one of the target's negative keywords occurs (case ignored, the
\* keyword taken without its leading dash), whatever positive keywords occur
\* in it, and for a title in which none of the positive keywords occurs; two
\* calls with the same target and title return the same result; and a call
\* changes nothing of the registry or of the manager.
C13_RejectsDeterministically ==
    /\ [](\A r \in matched :
             r.call = "matches_title" =>
                 /\ OccurrencesOf(r).negative => r.result = NoMatch
                 /\ OccurrencesOf(r).count = 0 => r.result = NoMatch
                 /\ \A q \in matched :
                        (q.call = r.call /\ q.target = r.target /\ q.title = r.title)
                            => q.result = r.result)
    /\ [][(matched' # matched /\ \E r \in matched' \ matched : r.call = "matches_title")
              => UNCHANGED <<manager_vars, returned, shopify_vars, footsite_vars,
                             lifecycle_vars, fleet_vars, handler_vars>>]_vars

\* C13 witness: "Panda Dunk GS", in which a positive keyword of the target
\* occurs and the negative keyword "-gs" occurs in upper case, did not match
C13_NegativeOverridesPositive ==
    \E r \in matched :
        /\ r.call = "matches_title"
        /\ r.target = NikeDunkLowPanda
        /\ r.title = "Panda Dunk GS"
        /\ OccurrencesOf(r).count = 1
        /\ OccurrencesOf(r).negative
        /\ r.result = NoMatch

\* C14: for a title that matches, the confidence, in hundredths, is
\* min(100, 100 * matchedCount / max(2, totalPositiveKeywords / 2)), raised by
\* 30 and capped at 100 if the SKU occurs in the title, and raised by 30 and
\* capped at 100 again if the style code occurs in the title; it is more than
\* 0 and at most 100; and of two matching titles of one target in which the
\* same codes occur, the one with at least as many matched keywords has at
\* least the confidence of the other.
C14_Confidence ==
    \A r \in matched :
        (r.call = "matches_title" /\ r.result.matches) =>
            LET count == OccurrencesOf(r).count
                total == Len(r.target.positive_keywords)
                twice_divisor == IF total > 4 THEN total ELSE 4
                base == IF 200 * count >= 100 * twice_divisor THEN 100
                        ELSE (200 * count) \div twice_divisor
                with_sku == IF OccurrencesOf(r).sku
                            THEN (IF base + 30 > 100 THEN 100 ELSE base + 30)
                            ELSE base
                with_style == IF OccurrencesOf(r).style_code
                              THEN (IF with_sku + 30 > 100 THEN 100 ELSE with_sku + 30)
                              ELSE with_sku
            IN  /\ r.result.confidence = with_style
                /\ r.result.confidence > 0
                /\ r.result.confidence <= 100
                /\ \A q \in matched :
                       (/\ q.call = "matches_title" /\ q.result.matches
                        /\ q.target = r.target
                        /\ OccurrencesOf(q).sku = OccurrencesOf(r).sku
                        /\ OccurrencesOf(q).style_code = OccurrencesOf(r).style_code
                        /\ OccurrencesOf(q).count >= count)
                           => q.result.confidence >= r.result.confidence

\* C14 witness: one of five keywords and the SKU give 0.7, two of five
\* keywords and the SKU give 1.0 (capped from 1.1)
C14_BoostedAndCapped ==
    /\ \E r \in matched :
           /\ r.call = "matches_title" /\ r.target = JordanFour
           /\ r.title = "AJ4 CU1110" /\ r.result.confidence = 70
    /\ \E r \in matched :
           /\ r.call = "matches_title" /\ r.target = JordanFour
           /\ r.title = "AJ4 Retro CU1110" /\ r.result.confidence = 100

\* the enabled products of the registry that match `title`
EnabledMatching(title) ==
    {k \in DOMAIN product_db : product_db[k].enabled /\ Scores[k][title].matches}

\* C15: match_product_title returns each enabled product that matches the
\* title once, with its confidence, and no other; the list is in descending
\* order of confidence, products of equal confidence in the order they were
\* added to the registry; and an event built by either handler carries the
\* first element of that list and its confidence, or no match and confidence
\* zero when the list is empty.
C15_SortedMatches ==
    /\ \A r \in matched :
           r.call = "match_product_title" =>
               /\ Len(r.list) = Cardinality(EnabledMatching(r.title))
               /\ \A k \in EnabledMatching(r.title) :
                      \E i \in DOMAIN r.list :
                          /\ r.list[i].product = product_db[k]
                          /\ r.list[i].confidence = Scores[k][r.title].confidence
               /\ \A i, j \in DOMAIN r.list :
                      i < j =>
                          \/ r.list[i].confidence > r.list[j].confidence
                          \/ /\ r.list[i].confidence = r.list[j].confidence
                             /\ RegistryIndex(r.list[i].product)
                                    < RegistryIndex(r.list[j].product)
    /\ \A n \in DOMAIN arrived :
           LET event == arrived[n]
               candidates == EnabledMatching(event.product.title)
           IN  IF candidates = {}
               THEN event.matched_product = NoCurated /\ event.match_confidence = 0
               ELSE \E k \in candidates :
                        /\ event.matched_product = product_db[k]
                        /\ event.match_confidence = Scores[k][event.product.title].confidence
                        /\ \A other \in candidates :
                               LET mine == Scores[k][event.product.title].confidence
                                   theirs == Scores[other][event.product.title].confidence
                               IN  theirs < mine \/ (theirs = mine /\ k <= other)

\* C15 witness: a title matched by an earlier product with confidence 0.5 and
\* a later one with 0.8 lists the later one first, and the event for a title
\* on which two products tie carries the one added first
C15_BestFirstTieInOrder ==
    /\ \E r \in matched :
           /\ r.call = "match_product_title"
           /\ r.title = "Panda Dunk AJ4 Retro"
           /\ Len(r.list) = 2
           /\ r.list[1].product = JordanFour
           /\ r.list[2].product = NikeDunkLowPanda
    /\ Len(arrived) = 1
    /\ arrived[1].product.title = "Tee"
    /\ arrived[1].matched_product = GrailTee
    /\ Scores[RegistryIndex(TeeTwin)]["Tee"].confidence = arrived[1].match_confidence

-----------------------------------------------------------------------------
(* Claims about the coordinators' start(), stop() and store loops *)

LoopsOf(c) == {t \in DOMAIN loops : loops[t].coordinator = c}

StoreSet(c) == {coordinators[c].stores[i] : i \in DOMAIN coordinators[c].stores}

\* no store loop of c is alive, so no request of c is in flight, its task list
\* is empty and every store session is closed
Stopped(c) ==
    /\ \A t \in LoopsOf(c) : Done(loops[t])
    /\ coordinators[c].tasks = <<>>
    /\ \A store_name \in StoreSet(c) : sessions[store_name] = "none"

\* a stop() waiting in its gather has cancelled every loop it waits for, and a
\* stop() closing the sessions has seen every one of them terminate
CancelledThenAwaited ==
    \A i \in DOMAIN calls.active :
        LET call == calls.active[i]
        IN  call.op = "stop" /\ call.coordinator \in Coordinators =>
                /\ call.pc = "gather" =>
                       \A t \in call.awaiting : loops[t].cancel \/ Done(loops[t])
                /\ call.pc = "closing" => \A t \in call.awaiting : Done(loops[t])

StopReturned(c) == calls.returned.op = "stop" /\ calls.returned.coordinator = c

Polling(store_name) ==
    {t \in DOMAIN loops :
        loops[t].store = store_name /\ ~Done(loops[t]) /\ ~loops[t].cancel}

\* C17: under every interleaving of start() and stop() calls on a coordinator
\* at most one poll loop per store is alive at any time (a loop that stop() has
\* cancelled and that has not yet terminated is not counted), so no two polls
\* of a store overlap.
C17_OneLoopPerStore ==
    \A store_name \in AllStores : Cardinality(Polling(store_name)) <= 1

\* the iteration of loop t ends in this step and another one follows: its poll
\* had returned detections, and the loop goes to one of its sleeps
IterationEnds(t) ==
    /\ t \in DOMAIN loops
    /\ loops[t].pc = "handling"
    /\ loops'[t].pc \in {"sleeping", "recovering"}

\* the handler was called with the detections 1..n, in this order
ForwardedInOrder(t, n) == loops[t].forwarded = [i \in 1..n |-> i]

Faults(t) ==
    /\ t \in DOMAIN loops
    /\ loops[t].pc \in {"checking", "handling"}
    /\ ~loops[t].cancel
    /\ loops'[t].pc = "recovering"

\* loop t terminates in this step
Ends(t) == t \in DOMAIN loops /\ ~Done(loops[t]) /\ Done(loops'[t])

\* C19: while the coordinator is running, a fault raised inside one store's
\* loop iteration (poll or handler) does not terminate that loop, which retries
\* after a fixed 5-second sleep, and changes nothing about the loop of any
\* other store; a store loop ends only when it was cancelled or the
\* coordinator is stopped.
C19_FaultIsolation ==
    [][\A t \in DOMAIN loops :
           \/ loops'[t] = loops[t]
           \/ /\ Faults(t) =>
                     /\ ~Done(loops'[t])
                     /\ loops'[t].sleep = FaultSleepSeconds * TicksPerSecond
                     /\ \A u \in DOMAIN loops : u # t => loops'[u] = loops[u]
                     /\ UNCHANGED coordinators
              /\ loops[t].pc = "recovering" /\ loops'[t].pc # "recovering" =>
                     \/ loops'[t].pc = "checking"
                     \/ loops[t].cancel
                     \/ ~coordinators[loops[t].coordinator].running
              /\ Ends(t) =>
                     loops[t].cancel \/ ~coordinators[loops[t].coordinator].running]_vars

\* a loop is in the 5-second sleep after a fault while the loop of another
\* store of the same running coordinator is in a poll
C19_RecoveringBesidePoll ==
    \E t, u \in DOMAIN loops :
        /\ t # u
        /\ loops[t].coordinator = loops[u].coordinator
        /\ loops[t].pc = "recovering"
        /\ loops[u].pc = "checking"
        /\ coordinators[loops[t].coordinator].running

-----------------------------------------------------------------------------
(* Claims about MonitorManager.start() and stop() *)

\* a start() or stop() of the manager that was waiting in its gather returns
\* in this step
ManagerReturns(op) ==
    /\ calls'.returned.coordinator = "manager"
    /\ calls'.returned.op = op
    /\ calls'.returned.id \in ActiveIds

\* a start() or stop() of the manager is called and returns at once in this step
ManagerReturnsAtOnce(op) ==
    /\ calls'.returned.coordinator = "manager"
    /\ calls'.returned.op = op
    /\ calls'.returned.id \notin ActiveIds

\* the call `op` of coordinator c that the returning call of the manager made
\* has returned
CoordinatorDone(op, c) ==
    \E i \in DOMAIN calls.active :
        /\ calls.active[i].id \in calls'.returned.awaiting
        /\ calls.active[i].coordinator = c
        /\ calls.active[i].op = op
        /\ calls.active[i].pc = "returned"

\* C20: start() of the manager returns only after the start() of every
\* configured coordinator has returned, which leaves that coordinator running;
\* stop() returns only after the stop() of every configured coordinator has
\* returned, which has seen every loop it cancelled terminate; start() while
\* the manager is already running and stop() while it is not running change
\* nothing.
C20_ManagerLifecycle ==
    /\ [][\A op \in {"start", "stop"} :
              ManagerReturns(op) =>
                  \A c \in Coordinators : configured(c) => CoordinatorDone(op, c)]_vars
    /\ [](\A c \in Coordinators :
              /\ calls.returned.coordinator = c /\ calls.returned.op = "start"
                     => coordinators[c].running
              /\ calls.returned.coordinator = c /\ calls.returned.op = "stop"
                     => \A t \in calls.returned.awaiting : Done(loops[t]))
    /\ [][\A op \in {"start", "stop"} :
              ManagerReturnsAtOnce(op) /\ manager.running = (op = "start") =>
                  /\ UNCHANGED <<manager, coordinators, loops, sessions>>
                  /\ calls'.active = calls.active]_vars

\* a stop() of the manager has returned from its gather over both coordinators
\* after store loops were cancelled
C20_ManagerStopReturned ==
    /\ calls.returned.coordinator = "manager"
    /\ calls.returned.op = "stop"
    /\ Cardinality(calls.returned.awaiting) = 2
    /\ \E t \in DOMAIN loops : loops[t].pc = "cancelled"
    /\ \A c \in Coordinators : Stopped(c)

-----------------------------------------------------------------------------
(* Claims about the store registry and the proxy pool *)

\* the add_store calls before the j-th that were made after the same
\* set_proxies call as the j-th
SincePoolSet(j) ==
    Cardinality({i \in 1..(j - 1) : fleet.added[i].epoch = fleet.added[j].epoch})

\* the add_store calls before the j-th that were made with a non-empty pool
WithPool(j) ==
    Cardinality({i \in 1..(j - 1) : fleet.added[i].proxies # <<>>})

\* the j-th add_store got no proxy from an empty pool, and from a pool of n
\* proxies the one at position k mod n
RoundRobin(j, k) ==
    LET call == fleet.added[j]
    IN  IF call.proxies = <<>> THEN call.proxy_url = ""
        ELSE call.proxy_url = call.proxies[(k % Len(call.proxies)) + 1]

\* every store of the registry has the proxy that the latest add_store of its
\* id got, and none when it was there from the construction
ProxyFixedAtRegistration ==
    \A i \in DOMAIN fleet.stores :
        LET calls_of == {j \in DOMAIN fleet.added :
                            fleet.added[j].store_id = fleet.stores[i].store_id}
        IN  IF calls_of = {} THEN fleet.stores[i].proxy_url = ""
            ELSE \E j \in calls_of :
                     /\ \A other \in calls_of : other <= j
                     /\ fleet.stores[i].proxy_url = fleet.added[j].proxy_url

\* C21 as stated: with a non-empty pool of n proxies the k-th store registered
\* after the pool was set (counting from 0) receives proxy k mod n in pool
\* order, with an empty pool a registered store gets no proxy, and a store's
\* proxy is fixed at registration.
C21_RoundRobinSincePoolSet ==
    /\ \A j \in DOMAIN fleet.added : RoundRobin(j, SincePoolSet(j))
    /\ ProxyFixedAtRegistration

\* C21, amended: with a non-empty pool of n proxies a store being registered
\* receives proxy k mod n in pool order, where k is the number of stores
\* registered before it with a non-empty pool since the coordinator was
\* constructed (setting a pool does not restart the rotation); with an empty
\* pool a registered store gets no proxy; a store's proxy is fixed at
\* registration and a later set_proxies does not change it.
C21_RoundRobinSinceConstruction ==
    /\ [](\A j \in DOMAIN fleet.added : RoundRobin(j, WithPool(j)))
    /\ []ProxyFixedAtRegistration
    /\ [][fleet'.epoch # fleet.epoch => fleet'.stores = fleet.stores]_vars

\* the rotation has gone round a pool once, and the pool was set again after
\* the store that got the first proxy a second time was registered
C21_RotationWrapped ==
    \E j \in DOMAIN fleet.added :
        /\ fleet.added[j].proxies # <<>>
        /\ WithPool(j) >= Len(fleet.added[j].proxies)
        /\ fleet.added[j].proxy_url = fleet.added[j].proxies[1]
        /\ fleet.epoch > fleet.added[j].epoch
        /\ \E i \in DOMAIN fleet.stores :
               /\ fleet.stores[i].store_id = fleet.added[j].store_id
               /\ fleet.stores[i].proxy_url = fleet.added[j].proxy_url

-----------------------------------------------------------------------------
(* Claims about the export and import of the product database *)

\* the titles on which the databases are compared
ExchangeTitles == {"Tee", "AJ4 010", "AJ4 CU1110", "Panda Dunk GS"}

\* what match_product_title returns, as names and confidences
Ranking(products, title) ==
    LET matches == match_in(products, Chars(title))
    IN  [i \in DOMAIN matches |-> <<matches[i].product.name, matches[i].confidence>>]

\* C22: exporting the registry and loading the exported document into an empty
\* registry yields the same targets in the same order with every field
\* preserved (name, brand, keyword lists, prices, profit, priority, SKU, style
\* code, enabled flag, provenance), so that match_product_title gives identical
\* results before and after.
C22_RoundTrip ==
    exchange.read =>
        /\ exchange.loaded = exchange.imported
        /\ \A title \in ExchangeTitles :
               Ranking(products_of(exchange.loaded), title)
                   = Ranking(products_of(exchange.imported), title)

-----------------------------------------------------------------------------
(* Claims about the indexes and the outcomes of the generic-catalog poller *)

\* C23: in every reachable state of a generic-catalog poller, every product id
\* present in the snapshot map (_seen_products) also has an entry, possibly
\* empty, in the variant-set map (_seen_variants).
C23_SeenProductsHaveVariantSets ==
    DOMAIN seen_products \subseteq DOMAIN seen_variants

\* two products are in the snapshot map, one with an empty variant set after it
\* sold out and one with a variant available
C23_EmptyAndNonEmptyEntries ==
    \E p, q \in DOMAIN seen_products :
        /\ p \in DOMAIN seen_variants /\ seen_variants[p] = {}
        /\ q \in DOMAIN seen_variants /\ seen_variants[q] # {}

-----------------------------------------------------------------------------
(* Claims about the event log under concurrent producers *)

\* the activations of _process_event suspended at a callback
InFlight == {s \in AllStores : handlers[s] # Idle}

\* C24: with detections of different store loops interleaved at the callbacks
\* the manager awaits, the log is at every moment the newest max_events of the
\* events handed to _process_event, each once and in the order handed over;
\* it is never seen longer than max_events, and total_products_found is the
\* number of events appended so far
C24_LogAtomicUnderProducers ==
    /\ manager.events = keep_last(arrived, manager.max_events)
    /\ Len(manager.events) <= manager.max_events
    /\ manager.total_products_found = Len(arrived)

\* two store loops are suspended in _process_event at once, a third event was
\* appended after theirs, and the log was cut
C24_AppendedWhileTwoSuspended ==
    /\ Cardinality(InFlight) >= 2
    /\ Len(arrived) > manager.max_events
    /\ \E s \in InFlight : handlers[s].event \notin {manager.events[i] : i \in DOMAIN manager.events}

-----------------------------------------------------------------------------
(* Claims about the outcomes of a poll of the generic-catalog poller *)

AccessDenied == {"Access denied (401)", "Access denied (403)"}

\* C25: a poll ended by 429 returns a rate-limited failure and sets a backoff
\* of at least the base delay; one ended by 401 or 403 returns the
\* access-denied failure of that status; one ended by any other status than
\* 200, by a timeout or by a connection error returns a failure that is
\* neither; a poll answered in full succeeds; and the consecutive-error
\* counter is at every moment the number of polls that sent a request and
\* failed since the latest one that succeeded
C25_OutcomesCounted ==
    /\ consecutive_errors = polled.failed
    /\ (polled.kind = "http" /\ polled.status = 429) =>
           /\ result = MonitorResult(FALSE, "Rate limited", TRUE, <<>>)
           /\ backoff_until >= last_request_time + BackoffBase * TicksPerSecond
    /\ (polled.kind = "http" /\ polled.status = 401) =>
           result = MonitorResult(FALSE, "Access denied (401)", FALSE, <<>>)
    /\ (polled.kind = "http" /\ polled.status = 403) =>
           result = MonitorResult(FALSE, "Access denied (403)", FALSE, <<>>)
    /\ (polled.kind \in {"timeout", "error"}
            \/ (polled.kind = "http" /\ polled.status \notin {200, 429, 401, 403})) =>
           /\ ~result.success /\ ~result.rate_limited /\ result.products = <<>>
           /\ result.error \notin AccessDenied \cup {"Rate limited", "Backing off", ""}
    /\ (polled.kind = "http" /\ polled.status = 200) =>
           result.success /\ consecutive_errors = 0

\* C25 witness: after a success, three polls failed in a row, one of them
\* rate-limited, the latest one denied
C25_DeniedAfterRateLimit ==
    /\ store.success_count = 1
    /\ store.error_count = 1
    /\ polled.failed = 3
    /\ polled.status \in {401, 403}
    /\ result.error \in AccessDenied

\* C26 as stated: every poll that sends a request and fails raises the error
\* count get_stats reports for the store by one
C26_FailuresInStats ==
    [][polled'.failed = polled.failed + 1 =>
        store_stats(store').error_count = store_stats(store).error_count + 1
      ]_vars

-----------------------------------------------------------------------------
(* Claims about the stores registered with a running coordinator *)

\* C27 as stated: while the generic-catalog coordinator is running, every
\* store registered with it, before or after start(), is polled by exactly one
\* poll-sleep loop
C27_EveryRegisteredStorePolled ==
    coordinators["shopify"].running =>
        \A store_name \in StoreSet("shopify") : Cardinality(Polling(store_name)) = 1

-----------------------------------------------------------------------------
(* Claims about the pages one poll requests *)

\* C28: the page requests of one poll are pages 1, 2, ... in this order; every
\* request but the last was answered with a page of products, so the poll
\* stops at the first empty page (and at the first failure); there are at most
\* 10 of them whatever the storefront serves, so the poll ends
C28_PaginationBounded ==
    LET requested == polled.requested
    IN  /\ \A i \in DOMAIN requested : requested[i].page = i
        /\ \A i \in DOMAIN requested :
               i < Len(requested) => requested[i].answer = "products"
        /\ Len(requested) <= 10
        /\ Len(requested) = net_calls
        /\ (requested # <<>> /\ requested[Len(requested)].answer = "products") =>
               Len(requested) = 10

\* C28 witness: a storefront that never serves an empty page was polled: ten
\* requests, all answered with products, and the poll succeeded
C28_CutAtTenPages ==
    /\ Len(polled.requested) = 10
    /\ polled.requested[10].answer = "products"
    /\ result.success

\* a poll of a paged catalog ended at the first empty page
C28_StoppedAtEmptyPage ==
    /\ Len(polled.requested) = 3
    /\ polled.requested[3].answer = "empty"
    /\ result.success

-----------------------------------------------------------------------------
(* Claims about the end of a backoff *)

\* C29: backoff-until, when set, lies after the moment it is set and at most
\* 300 seconds after it; a poll inside the window sends no request and leaves
\* backoff-until as it is; a poll at or after backoff-until sends a request;
\* and a store that is backing off, polled by a loop that goes on polling, is
\* polled over the network again, at or after the end of the window: the poll
\* is rate-limited once more or leaves backoff-until behind it (stated for the
\* polls the storefront still has an answer for: no poll has succeeded yet)
C29_BackoffEnds ==
    /\ [][/\ backoff_until' # backoff_until =>
                /\ now' < backoff_until'
                /\ backoff_until' <= now' + 300 * TicksPerSecond
          /\ (now < backoff_until /\ now' = now) =>
                /\ backoff_until' = backoff_until
                /\ polled'.requested = <<>>
                /\ last_request_time' = last_request_time
          /\ (now >= backoff_until /\ <<result, polled, now>>' # <<result, polled, now>>) =>
                /\ polled'.requested # <<>>
                /\ last_request_time' > last_request_time
         ]_vars
    /\ \A n \in 1..MaxRateLimits :
           (store.error_count = n /\ now < backoff_until /\ store.success_count = 0)
               ~> (store.error_count > n \/ last_request_time >= backoff_until)

\* C29 witness: a store that was rate-limited twice, the second time for the
\* full 300 seconds, was polled at the moment its window ended: the poll sent a
\* request and was answered
C29_PolledAtEndOfLongestBackoff ==
    /\ store.error_count = 2
    /\ backoff_until >= StartTime + 300 * TicksPerSecond
    /\ last_request_time = backoff_until
    /\ polled.requested # <<>>
    /\ result.success

-----------------------------------------------------------------------------
(* Claims about malformed records *)

\* a record of the generic catalog that _process_products cannot process: an
\* exception is raised while it is looked at
Malformed(product) == Raises(product) \/ info_raises(product.title)

\* C30 as stated: the malformed records of a fetched catalog produce no
\* detection and change neither index, and the other records of the poll are
\* classified as they would be without them: the detections and the indexes
\* after the poll are those of a poll of the catalog with the malformed
\* records taken out, for the generic-catalog poller and for the retail poller
C30_ParseErrorIsolation ==
    [][/\ Requested =>
            LET clean == SelectSeq(fetched', LAMBDA p : ~Malformed(p))
                st == process_products(
                          [seen_products |-> seen_products,
                           seen_variants |-> seen_variants, detected |-> <<>>,
                           products_found |-> store.products_found, log |-> <<>>],
                          clean, target_sizes)
            IN  /\ seen_products' = st.seen_products
                /\ seen_variants' = st.seen_variants
                /\ result'.products = st.detected
       /\ footsite'.check_count = footsite.check_count + 1 =>
            LET clean == SelectSeq(footsite_fetched', LAMBDA d : ~info_raises(d.name))
                run == footsite_products(
                           [monitor |-> footsite, detected |-> <<>>, raised |-> FALSE,
                            fetched |-> <<>>, slept |-> 0],
                           clean)
            IN  /\ footsite'.seen_skus = run.monitor.seen_skus
                /\ footsite'.seen_products = run.monitor.seen_products
                /\ footsite_result'.products = run.detected
      ]_vars

-----------------------------------------------------------------------------
(* Claims about the change detection of the retail poller *)

\* the sizes of a record of the search API that are in stock
InStock(data) ==
    {data.sellableUnits[i].size : i \in
        {k \in DOMAIN data.sellableUnits :
            /\ data.sellableUnits[k].stockLevelStatus = "inStock"
            /\ data.sellableUnits[k].size # ""}}

\* record `data` is new or restocked for the poller as it is before the poll
Changed(data) ==
    \/ data.sku \notin footsite.seen_skus
    \/ InStock(data) \ SizeSet(footsite.seen_products[data.sku].available_sizes) # {}

\* a size of `data` in stock is a target size, or there are no target sizes
PassesFilter(data) ==
    \/ footsite.target_sizes = <<>>
    \/ \E size \in InStock(data) : InSeq(Chars(size), footsite.target_sizes)

\* the poll of this step replaced the snapshot recorded for `data`
Replaced(data) ==
    /\ data.sku \in DOMAIN footsite'.seen_products
    /\ data.sku \in DOMAIN footsite.seen_products =>
           footsite'.seen_products[data.sku] # footsite.seen_products[data.sku]

\* the poll of this step returned a detection of `data`
Reported(data) ==
    \E j \in DOMAIN footsite_result'.products :
        footsite_result'.products[j].product_id = data.sku

\* the records a poll fetched that are in stock, each once in the poll
InStockRecords ==
    {footsite_fetched'[i] : i \in
        {k \in DOMAIN footsite_fetched' :
            /\ OnceSku(footsite_fetched', k)
            /\ footsite_fetched'[k].sku # ""
            /\ InStock(footsite_fetched'[k]) # {}}}

C32_ReportedAfterSellOut ==
    [][(/\ footsite'.check_count = footsite.check_count + 1
        /\ footsite_result.success /\ footsite_result'.success) =>
        \A data \in InStockRecords :
            (/\ data.sku \in footsite.seen_skus
             /\ PassesFilter(data)
             /\ \E i \in DOMAIN footsite_fetched :
                    /\ footsite_fetched[i].sku = data.sku
                    /\ InStock(footsite_fetched[i]) = {}) =>
                Reported(data)
      ]_vars

-----------------------------------------------------------------------------
(* Claims about restocks in the generic-catalog poller *)

\* the records of product `pid` in a fetched catalog
RecordsOf(products, pid) == {products[i] : i \in {k \in DOMAIN products : products[k].id = pid}}

\* C33 as stated: a successful poll that observes a previously seen product
\* with a variant available that was not available in the previous poll of the
\* product reports the product (if it passes the size filter), also when the
\* variant had been available earlier and was lost while others stayed
C33_ReappearanceReported ==
    [][(store'.success_count = store.success_count + 1) =>
        \A i \in DOMAIN fetched' :
            LET product == fetched'[i]
            IN  (/\ product.id \in DOMAIN seen_products
                 /\ RecordsOf(fetched', product.id) = {product}
                 /\ RecordsOf(fetched, product.id) # {}
                 /\ ~Raises(product)
                 /\ target_sizes # <<>> => HasTargetSize(product)
                 /\ \E v \in AvailableIds(product) :
                        \A before \in RecordsOf(fetched, product.id) :
                            v \notin AvailableIds(before)) =>
                    SnapshotsOf(result'.products, product.id) # <<>>
      ]_vars

\* the variants of `product` that are available and not in its recorded set
Gained(product) == AvailableIds(product) \ seen_variants[product.id]

\* the previously seen products a poll fetched once, in records that parse
SeenRecords ==
    {product \in {fetched'[i] : i \in DOMAIN fetched'} :
        /\ product.id \in DOMAIN seen_products
        /\ RecordsOf(fetched', product.id) = {product}
        /\ ~Raises(product)}

\* C35 as stated: with a size filter configured, a successful poll reports a
\* previously seen product only when a variant that is available and not in
\* its recorded set has a size in the target list
C35_GainedTargetSizeOnly ==
    [][(store'.success_count = store.success_count + 1 /\ target_sizes # <<>>) =>
        \A product \in SeenRecords :
            SnapshotsOf(result'.products, product.id) # <<>> =>
                \E k \in DOMAIN product.variants :
                    /\ product.variants[k].id \in Gained(product)
                    /\ InSeq(extract_size(product.variants[k]), target_sizes)
      ]_vars

\* C35, amended: with a size filter configured, a successful poll reports a
\* previously seen product exactly when some available size of it is in the
\* target list and some available variant is not in its recorded set; the
\* gained variant may be of any size
C35_TargetSizeAvailableAndGained ==
    [][(store'.success_count = store.success_count + 1 /\ target_sizes # <<>>) =>
        \A product \in SeenRecords :
            SnapshotsOf(result'.products, product.id) # <<>> <=>
                (HasTargetSize(product) /\ Gained(product) # {})
      ]_vars

\* with a size filter configured, a poll reported a restock whose only gained
\* variant, 3, has the size 11, which is not in the target list
C35_RestockedByOtherSize ==
    /\ target_sizes # <<>>
    /\ result.success
    /\ \E i \in DOMAIN log :
           /\ log[i].kind = "restock"
           /\ log[i].new_variants = {3}
    /\ SnapshotsOf(result.products, "P") # <<>>

-----------------------------------------------------------------------------
(* Claims about the event queries and the high-priority alerts *)

\* C36 as stated: for every limit >= 0 and every log, get_recent_events(limit)
\* and get_high_priority_events(limit) return at most `limit` events, so none
\* for limit = 0
C36_AtMostLimitEvents ==
    (/\ returned.call \in {"get_recent_events", "get_high_priority_events"}
     /\ returned.limit >= 0) =>
        Len(returned.events) <= returned.limit

\* the invocations of the high-priority callback made so far
Alerts ==
    SelectSeq(manager.invoked, LAMBDA made : made.callback = "on_high_priority")

\* the events the high-priority callback was invoked for
Alerted == {Alerts[i].event : i \in DOMAIN Alerts}

\* the events in the log
Logged == {manager.events[i] : i \in DOMAIN manager.events}

\* the events the last query returned
ReturnedEvents == {returned.events[i] : i \in DOMAIN returned.events}

\* get_high_priority_events was the last call, answered from the log as it is
\* now with a limit of at least the size of the log, and every event counted in
\* high_priority_found had the callback invoked
HighPriorityQueried ==
    /\ returned.call = "get_high_priority_events"
    /\ returned.from = manager.events
    /\ returned.limit >= Len(manager.events)
    /\ Len(Alerts) = manager.high_priority_found

\* C37 as stated: every event the high-priority callback was invoked for that
\* is still in the log is returned by get_high_priority_events when the limit
\* is at least the size of the log, and every event returned had the callback
\* invoked
C37_AlertsAndQueryAgree ==
    HighPriorityQueried =>
        /\ Alerted \cap Logged \subseteq ReturnedEvents
        /\ ReturnedEvents \subseteq Alerted

\* C37, amended: every event returned by get_high_priority_events had the
\* callback invoked, and an event the callback was invoked for that is still
\* in the log is returned exactly when the priority of its matched target is
\* high; one alerted for its profit alone is not returned
C37_ReturnedAreAlertedOfHighPriority ==
    HighPriorityQueried =>
        /\ ReturnedEvents \subseteq Alerted
        /\ \A event \in Alerted \cap Logged :
               event \in ReturnedEvents <=>
                   (/\ event.matched_product # NoCurated
                    /\ event.matched_product.priority = "high")

\* the log holds an event of priority high with a profit of 40 and an event
\* of priority medium with a profit of 120, the callback was invoked for both,
\* and the query returned the first one only
C37_ProfitAlertNotReturned ==
    /\ HighPriorityQueried
    /\ \E high, profitable \in Alerted \cap Logged :
           /\ high.matched_product = CuratedThin
           /\ profitable.matched_product = CuratedProfitable
           /\ ReturnedEvents = {high}

-----------------------------------------------------------------------------
(* Claims about the curated-target registry *)

\* the ids under which the database holds products
IdsOf(entries) == {entries[i].id : i \in DOMAIN entries}

\* the lengths of the lists of an index, added up
RECURSIVE listed(_, _)
listed(index, keys) ==
    IF keys = {} THEN 0
    ELSE LET key == CHOOSE k \in keys : TRUE
         IN  Len(index[key]) + listed(index, keys \ {key})

\* the index differs from `before` in one list, which has `product_id` appended
AppendedToOne(before, after, product_id) ==
    \E key \in DOMAIN after :
        /\ after[key] = (IF key \in DOMAIN before THEN before[key] ELSE <<>>)
                           \o <<product_id>>
        /\ DOMAIN after = DOMAIN before \cup {key}
        /\ \A other \in DOMAIN before \ {key} : after[other] = before[other]

\* C34: add_product never overwrites: the id it assigns is not an id of the
\* database, also when the slug of the name is one; the products stored before
\* stay as they were and one is added; the new id is appended to exactly one
\* list of the brand index and one of the priority index; so the lengths of
\* the lists of each index always add up to the number of products
C34_AddNeverOverwrites ==
    /\ [](/\ listed(exchange.by_brand, DOMAIN exchange.by_brand) = Len(exchange.products)
          /\ listed(exchange.by_priority, DOMAIN exchange.by_priority)
                 = Len(exchange.products))
    /\ [][LET product_id == exchange'.products[Len(exchange'.products)].id
          IN  /\ product_id \notin IdsOf(exchange.products)
              /\ Len(exchange'.products) = Len(exchange.products) + 1
              /\ SubSeq(exchange'.products, 1, Len(exchange.products)) = exchange.products
              /\ AppendedToOne(exchange.by_brand, exchange'.by_brand, product_id)
              /\ AppendedToOne(exchange.by_priority, exchange'.by_priority, product_id)
         ]_exchange

\* three products whose names have the slug tee_twin are stored under three
\* ids, two brands spelled "Kith" and "KITH" share one list of the brand index,
\* and the priority index has two lists
C34_ThreeUnderOneSlug ==
    /\ {Chars("tee_twin"), Chars("tee_twin_1"), Chars("tee_twin_2")}
           \subseteq IdsOf(exchange.products)
    /\ \E key \in DOMAIN exchange.by_brand : Len(exchange.by_brand[key]) > 3
    /\ Cardinality(DOMAIN exchange.by_priority) = 2

-----------------------------------------------------------------------------
(* Claims about polls of the generic-catalog poller that fail part-way *)

\* the last request of the poll was not answered with status 200
PageFailed(answer) == answer.kind # "http" \/ answer.status # 200

\* C39: a poll one of whose page requests ends in 429, 401 or 403, another
\* status that is not 200, a timeout or another transport error returns a
\* failure with no detections and leaves the two index maps, success_count and
\* products_found as they were, also when pages before it were fetched
C39_AllOrNothing ==
    [][(Requested /\ PageFailed(polled')) =>
        /\ ~result'.success
        /\ result'.products = <<>>
        /\ seen_products' = seen_products
        /\ seen_variants' = seen_variants
        /\ store'.success_count = store.success_count
        /\ store'.products_found = store.products_found
      ]_vars

\* a poll fetched two pages with products, its third request was rate-limited,
\* and the poller, which had recorded product P before, has not recorded Q
C39_FailedOnThirdPage ==
    /\ Len(polled.requested) = 3
    /\ polled.status = 429
    /\ ~result.success
    /\ DOMAIN seen_products = {"P"}

-----------------------------------------------------------------------------
(* Claims about setup calls on the Monitor Manager *)

\* the number of entries of the database that hold `product`
Copies(product) ==
    Cardinality({i \in DOMAIN exchange.products : exchange.products[i].product = product})

\* C38 as stated: after any sequence of setup, start() and stop() calls on the
\* manager the database holds no built-in product twice, and holds each of them
\* once when the manager is running, so match_product_title on the database
\* returns no built-in product twice
C38_BuiltinOnce ==
    /\ \A i \in DOMAIN builtin_products :
           /\ Copies(builtin_products[i]) <= 1
           /\ manager.running => Copies(builtin_products[i]) = 1
    /\ \A i, j \in DOMAIN match_in(products_of(exchange.products), Chars("Panda Dunk")) :
           LET matches == match_in(products_of(exchange.products), Chars("Panda Dunk"))
           IN  matches[i].product = matches[j].product => i = j

\* C40 as stated, for the loops it includes expressly: when a stop() of the
\* manager that stopped its coordinators has returned and no other call is in
\* progress, no store loop is alive that was started through the manager by a
\* coordinator a setup call replaced while the manager was running
C40_NoLoopAfterStop ==
    (/\ calls.returned.coordinator = "manager"
     /\ calls.returned.op = "stop"
     /\ calls.returned.awaiting # {}
     /\ calls.active = <<>>) =>
        \A t \in DOMAIN loops :
            loops[t].coordinator \notin Coordinators => Done(loops[t])

====
